---- MODULE Spec2Model ----
(***************************************************************************)
(* A model of the Archy knowledge-graph plugin: link extraction            *)
(* (parser.ts), bidirectional inference and transitive reduction           *)
(* (parser.ts), the force-directed renderer (forceGraph.ts) and the        *)
(* mindmap layout helpers of the tree view.                                *)
(***************************************************************************)
EXTENDS Integers, Sequences, FiniteSets, TLC

VARIABLES
    graph,      \* Map<string, NoteLinks>: document -> its three target lists
    order,      \* insertion order of the Map's keys (the order of iteration)
    hist,       \* history: the graphs before each pass run so far
    ops,        \* history: the passes run so far, oldest first
    fm,         \* parseNoteLinks: the frontmatter the metadata cache gave, per file
    raw,        \* parseNoteLinks: the text cachedRead gave, per file
    pstate,     \* parseNoteLinks: where each call stands
    pending,    \* parseNoteLinks: the three Sets of a call waiting for its read
    links,      \* parseNoteLinks: the NoteLinks each call returned
    lastIndex,  \* INLINE_TAG_REGEX.lastIndex, the shared scan cursor
    rstate,     \* ForceGraphRenderer: "constructed" or "mounted"
    fnodes,     \* ForceGraphRenderer.nodes: id -> [x, y, vx, vy, r]
    fedges,     \* ForceGraphRenderer.edges
    rafId,      \* ForceGraphRenderer.rafId; 0 stands for null
    tick,       \* ForceGraphRenderer.tick
    pan,        \* ForceGraphRenderer.panX, panY, zoom
    panFromSaved, \* ForceGraphRenderer.panFromSaved
    frames,     \* the browser's queue of requested animation frames
    nextRaf,    \* the handle the next requestAnimationFrame returns
    stopCalls,  \* history: how many times stop() was called (saturating)
    savedArg,   \* history: the savedPan argument mount was called with
    userEvents, \* history: how many mouse moves and wheel events changed the pan
    dragging,   \* createSVG: dragging
    lastMouse,  \* createSVG: lastX, lastY
    rootName,   \* ArchiTreeView.rootName; "" stands for null
    mmR,        \* ArchiTreeView.mmR, the mindmap node radius
    applyInheritance, \* ArchiTreeView.applyInheritance
    maxDepth,   \* plugin.settings.maxDepth
    viewGraph,  \* ArchiTreeView.graph
    mm,         \* the laid-out mindmap: root, parents, totalWidth; <<>> if none
    built,      \* buildFullGraph: the Map `graph` while the notes are parsed
    bstate,     \* buildFullGraph: "idle", "building" or "assembled"
    snap,       \* applyTransitiveReduction: snapshot
    rpc,        \* applyTransitiveReduction: "idle", "scan", "query" or "done"
    idxA,       \* position of noteA in the iteration over the graph
    idxC,       \* position of noteC in originalLeadsto
    idxB,       \* position of noteB in originalLeadsto
    toRemove,   \* applyTransitiveReduction: toRemove
    stack,      \* the active calls of isReachableLeadsto, outermost first
    ret,        \* the value the call that just returned gave; "none" if none
    currentMode,   \* ArchiTreeView.currentMode
    forceRenderer, \* ArchiTreeView.forceRenderer; 0 stands for null
    container,  \* the children of ArchiTreeView.treeContainerEl
    renderers,  \* every ForceGraphRenderer constructed so far, oldest first
    calls,      \* the refresh calls waiting for their buildFullGraph
    refreshCalls \* history: how many refresh calls were started

graphVars == <<graph, order, hist, ops>>

parseVars == <<fm, raw, pstate, pending, links, lastIndex>>

forceVars == <<rstate, fnodes, fedges, rafId, tick, pan, panFromSaved,
               frames, nextRaf, stopCalls, savedArg, userEvents, dragging, lastMouse>>

layoutVars == <<rootName, mmR, applyInheritance, maxDepth, viewGraph, mm>>

buildVars == <<built, bstate>>

reduceVars == <<snap, rpc, idxA, idxC, idxB, toRemove, stack, ret>>

refreshVars == <<currentMode, forceRenderer, container, renderers, calls, refreshCalls>>

vars == <<graphVars, parseVars, forceVars, layoutVars, buildVars, reduceVars, refreshVars>>

\* ------------------------------------------------------------------------
\* Generic helpers
\* ------------------------------------------------------------------------

Range(s) == {s[i] : i \in 1..Len(s)}

NoDup(s) == \A i, j \in 1..Len(s) : i # j => s[i] # s[j]

\* Array.prototype.filter with the predicate "member of keep"
RECURSIVE FilterIn(_, _)
FilterIn(s, keep) ==
    IF s = <<>> THEN <<>>
    ELSE IF Head(s) \in keep THEN <<Head(s)>> \o FilterIn(Tail(s), keep)
    ELSE FilterIn(Tail(s), keep)

\* ------------------------------------------------------------------------
\* The documents of the vault
\* ------------------------------------------------------------------------

Docs == {"A", "B", "C"}

\* a link target that is no document of the vault (a dangling reference)
Dangling == {"X"}

Targets == Docs \cup Dangling

LinkTypes == {"leadsto", "dependson", "informedby"}

\* Bound: the number of declared links in the whole vault
MaxEdges == 3

\* Bound: the number of declared leadsto links in a vault that declares
\* nothing else
MaxLeadsTo == 5

\* Bound: how many times in succession one pass is run on a graph
MaxPasses == 2

\* ------------------------------------------------------------------------
\* NoteLinks and the graph (types.ts, parser.ts)
\* ------------------------------------------------------------------------

\* interface NoteLinks: the three target arrays of one note
NoteLinks(l, d, i) == [leadsto |-> l, dependson |-> d, informedby |-> i]

\* no graph built yet
GraphIdle ==
    /\ graph = [doc \in Docs |-> NoteLinks(<<>>, <<>>, <<>>)]
    /\ order = <<"A", "B", "C">>
    /\ hist = <<>>
    /\ ops = <<>>

\* Map.get(name) ?? []  on the snapshot of leadsto arrays
SnapshotGet(snapshot, name) ==
    IF name \in DOMAIN snapshot THEN snapshot[name] ELSE <<>>

\* Rule A without the includes() test: the inverse is pushed every time
RECURSIVE RuleA_NoIncludesTest(_, _, _, _)
RuleA_NoIncludesTest(g, noteName, children, i) ==
    IF i > Len(children) THEN g
    ELSE LET child == children[i]
             g1 == IF child \in DOMAIN g
                   THEN [g EXCEPT ![child].dependson = Append(@, noteName)]
                   ELSE g
         IN RuleA_NoIncludesTest(g1, noteName, children, i + 1)

\* Rule A left out: declared leadsto links get no dependson inverse
RuleA_Omitted(g, noteName, children, i) == g

\* Rule A of inferBidirectionalLinks for the note noteName, over the copy
\* `children` of its leadsto array, from index i on
RECURSIVE RuleA(_, _, _, _)
RuleA(g, noteName, children, i) ==
    IF i > Len(children) THEN g
    ELSE LET child == children[i]
             g1 == IF child \in DOMAIN g /\ noteName \notin Range(g[child].dependson)
                   THEN [g EXCEPT ![child].dependson = Append(@, noteName)]
                   ELSE g
         IN RuleA(g1, noteName, children, i + 1)

\* Rule B left out: declared dependson links get no leadsto inverse
RuleB_Omitted(g, noteName, parents, i) == g

\* Rule B of inferBidirectionalLinks for the note noteName, over the copy
\* `parents` of its dependson array, from index i on
RECURSIVE RuleB(_, _, _, _)
RuleB(g, noteName, parents, i) ==
    IF i > Len(parents) THEN g
    ELSE LET parent == parents[i]
             g1 == IF parent \in DOMAIN g /\ noteName \notin Range(g[parent].leadsto)
                   THEN [g EXCEPT ![parent].leadsto = Append(@, noteName)]
                   ELSE g
         IN RuleB(g1, noteName, parents, i + 1)

\* One iteration of the outer loop: the arrays are copied when the note's
\* turn comes ([...links.leadsto], [...links.dependson]), from the live
\* NoteLinks object the entries array refers to
InferNote(g, noteName) ==
    LET g1 == RuleA(g, noteName, g[noteName].leadsto, 1)
    IN RuleB(g1, noteName, g1[noteName].dependson, 1)

RECURSIVE InferFrom(_, _, _)
InferFrom(g, ord, k) ==
    IF k > Len(ord) THEN g ELSE InferFrom(InferNote(g, ord[k]), ord, k + 1)

\* inferBidirectionalLinks(graph); ord is the Map's iteration order
InferBidirectionalLinksOp(g, ord) == InferFrom(g, ord, 1)

\* isReachableLeadsto(snapshot, from, to, visited)
RECURSIVE IsReachableLeadsto(_, _, _, _)
IsReachableLeadsto(snapshot, from, to, visited) ==
    IF from \in visited THEN FALSE
    ELSE LET children == SnapshotGet(snapshot, from)
         IN IF to \in Range(children) THEN TRUE
            ELSE \E i \in 1..Len(children) :
                    IsReachableLeadsto(snapshot, children[i], to, visited \cup {from})

\* toRemove that stops after the first redundant target it finds
ToRemove_FirstOnly(snapshot, noteA) ==
    LET originalLeadsto == SnapshotGet(snapshot, noteA)
        redundant == FilterIn(originalLeadsto,
            {noteC \in Range(originalLeadsto) :
                \E noteB \in Range(originalLeadsto) :
                    /\ noteB # noteC
                    /\ IsReachableLeadsto(snapshot, noteB, noteC, {noteA})})
    IN IF redundant = <<>> THEN {} ELSE {Head(redundant)}

\* toRemove without the `if (noteB === noteC) continue` test
ToRemove_NoSkipSame(snapshot, noteA) ==
    LET originalLeadsto == SnapshotGet(snapshot, noteA)
    IN {noteC \in Range(originalLeadsto) :
           \E noteB \in Range(originalLeadsto) :
               IsReachableLeadsto(snapshot, noteB, noteC, {noteA})}

\* the toRemove set computed for noteA from its original leadsto array
ToRemove(snapshot, noteA) ==
    LET originalLeadsto == SnapshotGet(snapshot, noteA)
    IN {noteC \in Range(originalLeadsto) :
           \E noteB \in Range(originalLeadsto) :
               /\ noteB # noteC
               /\ IsReachableLeadsto(snapshot, noteB, noteC, {noteA})}

\* the removal that filters noteA's leadsto and leaves every dependson alone
ApplyRemoval_KeepBackEdges(g, noteA, removed) ==
    [g EXCEPT ![noteA].leadsto = FilterIn(@, Targets \ removed)]

\* lines 160-169: the removal of the targets in `removed` from noteA's
\* leadsto and of noteA from the dependson of each of them
ApplyRemoval(g, noteA, removed) ==
    IF removed = {} THEN g
    ELSE [n \in DOMAIN g |->
            IF n = noteA
            THEN [g[n] EXCEPT
                    !.leadsto = FilterIn(@, Targets \ removed),
                    !.dependson = IF n \in removed
                                  THEN FilterIn(@, Targets \ {noteA}) ELSE @]
            ELSE IF n \in removed
            THEN [g[n] EXCEPT !.dependson = FilterIn(@, Targets \ {noteA})]
            ELSE g[n]]

\* One iteration of the outer loop of applyTransitiveReduction
ReduceNote(g, snapshot, noteA) == ApplyRemoval(g, noteA, ToRemove(snapshot, noteA))

\* the outer loop that takes the leadsto arrays as they are at each note's
\* turn instead of the snapshot taken on entry
RECURSIVE ReduceFrom_LiveArrays(_, _, _, _)
ReduceFrom_LiveArrays(g, snapshot, ord, k) ==
    IF k > Len(ord) THEN g
    ELSE ReduceFrom_LiveArrays(ReduceNote(g, [n \in DOMAIN g |-> g[n].leadsto], ord[k]),
                               snapshot, ord, k + 1)

RECURSIVE ReduceFrom(_, _, _, _)
ReduceFrom(g, snapshot, ord, k) ==
    IF k > Len(ord) THEN g
    ELSE ReduceFrom(ReduceNote(g, snapshot, ord[k]), snapshot, ord, k + 1)

\* the snapshot of all leadsto arrays taken on entry
LeadstoSnapshot(g) == [n \in DOMAIN g |-> g[n].leadsto]

\* applyTransitiveReduction(graph); ord is the Map's iteration order
ApplyTransitiveReductionOp(g, ord) == ReduceFrom(g, LeadstoSnapshot(g), ord, 1)

\* ------------------------------------------------------------------------
\* Link extraction (parser.ts: INLINE_TAG_REGEX, resolveTagMatch,
\* parseNoteLinks).  A text is a sequence of tokens: a keyword, a single
\* character, or the run "---"; a string value is a sequence of tokens too.
\* ------------------------------------------------------------------------

\* the files parseNoteLinks is called for
Files == {"n1"}

\* (leadsto|dependson|informedby)
Keywords == {"leadsto", "dependson", "informedby"}

\* [><!]
Shorthands == {">", "<", "!"}

\* tokens made of word characters only (\w)
WordTokens == Keywords \cup {"a", "b", "0", "1", "null", "undefined"}

\* the class [\w\-]
IsTargetTok(t) == t \in WordTokens \/ t = "---"

\* SHORTHAND_MAP with '>' and '<' exchanged
ShorthandMap_Swapped(c) ==
    CASE c = ">" -> "dependson"
      [] c = "<" -> "leadsto"
      [] c = "!" -> "informedby"
      [] OTHER -> ""

\* SHORTHAND_MAP[c]; "" stands for undefined
ShorthandMap(c) ==
    CASE c = ">" -> "leadsto"
      [] c = "<" -> "dependson"
      [] c = "!" -> "informedby"
      [] OTHER -> ""

\* \b before a keyword: the start of the text or a non-word character
WordBoundaryBefore(body, i) == i = 1 \/ body[i - 1] \notin WordTokens

\* the index of the first '"' at or after j, 0 when there is none
RECURSIVE QuoteClose(_, _)
QuoteClose(body, j) ==
    IF j > Len(body) THEN 0
    ELSE IF body[j] = "\"" THEN j
    ELSE QuoteClose(body, j + 1)

\* the last index of the greedy run [\w\-]+ starting at j (j - 1: no run)
RECURSIVE RunEnd(_, _)
RunEnd(body, j) ==
    IF j > Len(body) \/ ~IsTargetTok(body[j]) THEN j - 1
    ELSE RunEnd(body, j + 1)

NoMatch == [ok |-> FALSE, m1 |-> "", m2 |-> "", m3 |-> <<>>, m4 |-> <<>>, end |-> 0]

\* one attempt of INLINE_TAG_REGEX at position i; groups m1..m4, "" and
\* <<>> standing for an undefined group; end is the last index matched
MatchAt(body, i) ==
    IF i + 2 > Len(body) \/ body[i + 1] # "@" THEN NoMatch
    ELSE IF ~ \/ (body[i] \in Keywords /\ WordBoundaryBefore(body, i))
              \/ body[i] \in Shorthands
    THEN NoMatch
    ELSE LET m1 == IF body[i] \in Keywords THEN body[i] ELSE ""
             m2 == IF body[i] \in Shorthands THEN body[i] ELSE ""
             q  == IF body[i + 2] = "\"" THEN QuoteClose(body, i + 3) ELSE 0
             r  == RunEnd(body, i + 2)
         IN IF q >= i + 4
            THEN [ok |-> TRUE, m1 |-> m1, m2 |-> m2,
                  m3 |-> SubSeq(body, i + 3, q - 1), m4 |-> <<>>, end |-> q]
            ELSE IF r >= i + 2
            THEN [ok |-> TRUE, m1 |-> m1, m2 |-> m2,
                  m3 |-> <<>>, m4 |-> SubSeq(body, i + 2, r), end |-> r]
            ELSE NoMatch

\* INLINE_TAG_REGEX.exec(body) with the cursor at li (0-based): the
\* leftmost match starting at or after the cursor
RECURSIVE ExecFrom(_, _)
ExecFrom(body, i) ==
    IF i > Len(body) THEN NoMatch
    ELSE IF MatchAt(body, i).ok THEN MatchAt(body, i)
    ELSE ExecFrom(body, i + 1)

Exec(body, li) == ExecFrom(body, li + 1)

\* resolveTagMatch(m); ok = FALSE stands for null
ResolveTagMatch(m) ==
    LET type   == IF m.m1 # "" THEN m.m1 ELSE ShorthandMap(m.m2)
        target == IF m.m3 # <<>> THEN m.m3 ELSE m.m4
    IN IF type = "" \/ target = <<>>
       THEN [ok |-> FALSE, type |-> "", target |-> <<>>]
       ELSE [ok |-> TRUE, type |-> type, target |-> target]

\* Set.prototype.add on a Set kept in insertion order
SetAdd(set, x) == IF x \in Range(set) THEN set ELSE Append(set, x)

\* new Set(array)
RECURSIVE SetFrom(_, _)
SetFrom(set, array) ==
    IF array = <<>> THEN set ELSE SetFrom(SetAdd(set, Head(array)), Tail(array))

\* the while loop of parseNoteLinks from cursor li on; sets holds the three
\* Sets; the loop leaves the cursor at 0 (exec returned null)
RECURSIVE ScanLoop(_, _, _)
ScanLoop(body, li, sets) ==
    LET m == Exec(body, li)
    IN IF ~m.ok THEN sets
       ELSE LET resolved == ResolveTagMatch(m)
            IN IF ~resolved.ok THEN ScanLoop(body, m.end, sets)
               ELSE ScanLoop(body, m.end,
                        [sets EXCEPT ![resolved.type] = SetAdd(@, resolved.target)])

\* the index of the first "---" at or after j, 0 when there is none
RECURSIVE FenceClose(_, _)
FenceClose(text, j) ==
    IF j > Len(text) THEN 0
    ELSE IF text[j] = "---" THEN j
    ELSE FenceClose(text, j + 1)

\* raw.startsWith('---') ? raw.replace(/^---[\s\S]*?---\n?/, '') : raw
StripFrontmatter(text) ==
    IF text = <<>> \/ text[1] # "---" THEN text
    ELSE LET j == FenceClose(text, 2)
         IN IF j = 0 THEN text
            ELSE IF j + 1 <= Len(text) /\ text[j + 1] = "\n"
            THEN SubSeq(text, j + 2, Len(text))
            ELSE SubSeq(text, j + 1, Len(text))

\* Frontmatter values: t is "undef", "null", "str", "num" or "list"
Val(t, s, n, xs) == [t |-> t, s |-> s, n |-> n, xs |-> xs]

Undef == Val("undef", <<>>, 0, <<>>)

Null == Val("null", <<>>, 0, <<>>)

Str(s) == Val("str", s, 0, <<>>)

Num(n) == Val("num", <<>>, n, <<>>)

List(xs) == Val("list", <<>>, 0, xs)

\* JavaScript truthiness
Truthy(v) ==
    CASE v.t = "str" -> v.s # <<>>
      [] v.t = "num" -> v.n # 0
      [] v.t = "list" -> TRUE
      [] OTHER -> FALSE

\* String(v) for a scalar
StringOf(v) ==
    CASE v.t = "str" -> v.s
      [] v.t = "num" -> IF v.n = 0 THEN <<"0">> ELSE <<"1">>
      [] v.t = "null" -> <<"null">>
      [] OTHER -> <<"undefined">>

\* array.map(String).filter(Boolean)
RECURSIVE MapStringFilter(_)
MapStringFilter(xs) ==
    IF xs = <<>> THEN <<>>
    ELSE IF StringOf(Head(xs)) # <<>>
    THEN <<StringOf(Head(xs))>> \o MapStringFilter(Tail(xs))
    ELSE MapStringFilter(Tail(xs))

\* toArray without .filter(Boolean)
RECURSIVE MapString(_)
MapString(xs) ==
    IF xs = <<>> THEN <<>> ELSE <<StringOf(Head(xs))>> \o MapString(Tail(xs))

ToArray_NoFilter(val) ==
    IF ~Truthy(val) THEN <<>>
    ELSE IF val.t = "list" THEN MapString(val.xs)
    ELSE <<StringOf(val)>>

\* toArray(val)
ToArray(val) ==
    IF ~Truthy(val) THEN <<>>
    ELSE IF val.t = "list" THEN MapStringFilter(val.xs)
    ELSE MapStringFilter(<<val>>)

\* lines 41-43: the three Sets built from the frontmatter
SetsOfFrontmatter(f) ==
    [type \in LinkTypes |-> SetFrom(<<>>, ToArray(f[type]))]

\* lines 47-60 with the inline scan dropping what the frontmatter gave
ScanBody_Overwrite(text, sets) ==
    ScanLoop(StripFrontmatter(text), 0, [type \in LinkTypes |-> <<>>])

\* lines 47-60: strip the frontmatter block, reset the cursor, scan
ScanBody(text, sets) == ScanLoop(StripFrontmatter(text), 0, sets)

\* lines 65-70: the NoteLinks returned
LinksOfSets(sets) ==
    NoteLinks(sets["leadsto"], sets["dependson"], sets["informedby"])

NoSets == [type \in LinkTypes |-> <<>>]

ParseIdle ==
    /\ fm = [f \in Files |-> [type \in LinkTypes |-> Undef]]
    /\ raw = [f \in Files |-> <<>>]
    /\ pstate = [f \in Files |-> "idle"]
    /\ pending = [f \in Files |-> NoSets]
    /\ links = [f \in Files |-> NoteLinks(<<>>, <<>>, <<>>)]
    /\ lastIndex = 0

\* the savedPan argument of mount; z = 0 stands for none given
NoSavedPan == [x |-> 0, y |-> 0, z |-> 0]

\* the renderer after its constructor; the zoom is in hundredths
ForceIdle ==
    /\ rstate = "constructed"
    /\ fnodes = <<>>
    /\ fedges = <<>>
    /\ rafId = 0
    /\ tick = 0
    /\ pan = [x |-> 0, y |-> 0, z |-> 100]
    /\ panFromSaved = FALSE
    /\ frames = <<>>
    /\ nextRaf = 1
    /\ stopCalls = 0
    /\ savedArg = NoSavedPan
    /\ userEvents = 0
    /\ dragging = FALSE
    /\ lastMouse = <<0, 0>>

\* the tree view after its constructor
LayoutIdle ==
    /\ rootName = ""
    /\ mmR = 14
    /\ applyInheritance = FALSE
    /\ maxDepth = 4
    /\ viewGraph = <<>>
    /\ mm = <<>>

\* applyTransitiveReduction not called
ReduceIdle ==
    /\ snap = <<>>
    /\ rpc = "idle"
    /\ idxA = 1
    /\ idxC = 1
    /\ idxB = 1
    /\ toRemove = {}
    /\ stack = <<>>
    /\ ret = "none"

\* buildFullGraph not called
BuildIdle ==
    /\ built = <<>>
    /\ bstate = "idle"

\* a view in folio mode before its first refresh (forceRenderer = null),
\* its container empty
RefreshIdle ==
    /\ currentMode = "folio"
    /\ forceRenderer = 0
    /\ container = <<>>
    /\ renderers = <<>>
    /\ calls = <<>>
    /\ refreshCalls = 0

\* parseNoteLinks up to `await app.vault.cachedRead(file)`; v is the
\* frontmatter of the file's cache entry
ParseStart(f, v) ==
    /\ pstate[f] = "idle"
    /\ fm' = [fm EXCEPT ![f] = v]
    /\ pending' = [pending EXCEPT ![f] = SetsOfFrontmatter(v)]
    /\ pstate' = [pstate EXCEPT ![f] = "reading"]
    /\ UNCHANGED <<raw, links, lastIndex>>

\* parseNoteLinks from the resolved read to its return; text is what was read
ParseReadOk(f, text) ==
    /\ pstate[f] = "reading"
    /\ raw' = [raw EXCEPT ![f] = text]
    /\ links' = [links EXCEPT ![f] = LinksOfSets(ScanBody(text, pending[f]))]
    /\ lastIndex' = 0
    /\ pstate' = [pstate EXCEPT ![f] = "done"]
    /\ UNCHANGED <<fm, pending>>

\* the catch block dropping what the frontmatter gave
ParseReadFail_Empty(f) ==
    /\ pstate[f] = "reading"
    /\ links' = [links EXCEPT ![f] = NoteLinks(<<>>, <<>>, <<>>)]
    /\ pstate' = [pstate EXCEPT ![f] = "failed"]
    /\ UNCHANGED <<fm, raw, pending, lastIndex>>

\* parseNoteLinks when the read rejects: the catch block skips the scan
ParseReadFail(f) ==
    /\ pstate[f] = "reading"
    /\ links' = [links EXCEPT ![f] = LinksOfSets(pending[f])]
    /\ pstate' = [pstate EXCEPT ![f] = "failed"]
    /\ UNCHANGED <<fm, raw, pending, lastIndex>>

\* ------------------------------------------------------------------------
\* Specification of link extraction: the inputs of parseNoteLinks
\* ------------------------------------------------------------------------

\* Bound: the length of a frontmatter list
MaxFmList == 2

\* Bound: the length of the texts enumerated exhaustively
MaxBodyLen == 4

FmScalars == {Undef, Null, Str(<<>>), Str(<<" ">>), Str(<<"a">>), Num(0)}

FmLists == UNION {[1..n -> FmScalars] : n \in 0..MaxFmList}

FmValues == FmScalars \cup {List(xs) : xs \in FmLists}

NoFrontmatter == [type \in LinkTypes |-> Undef]

\* frontmatters with one key set, or all three keys set to the same value
FmInputs ==
    {[NoFrontmatter EXCEPT ![type] = v] : type \in LinkTypes, v \in FmValues}
    \cup {[type \in LinkTypes |-> v] : v \in FmValues}

\* the frontmatters every enumerated text is read with
PlainFmInputs ==
    {NoFrontmatter,
     [leadsto |-> Str(<<"a">>),
      dependson |-> List(<<Str(<<" ">>), Str(<<"a">>)>>),
      informedby |-> Undef]}

Alphabet == {"leadsto", "dependson", "informedby", ">", "<", "!", "@", "\"", "a", " "}

ShortTexts == UNION {[1..n -> Alphabet] : n \in 0..MaxBodyLen}

\* longer texts: the scenarios of the README and of the regex comment
ScenarioTexts ==
    {<<"b", " ", "<", "@", "a", "\n", "b", " ", "dependson", "@", "a", " ",
       ">", "@", "\"", "a", " ", "b", "\"">>,
     <<"leadsto", "@", "\"", "a", " ", "b", "\"", " ", "informedby", "@", "a">>,
     <<"---", "\n", "leadsto", "@", "b", "\n", "---", "\n", "!", "@", "a">>,
     <<"---", ">", "@", "a">>,
     <<"---", "---", ">", "@", "a">>,
     <<"leadsto", "@", "a", ">", "@", "a", "<", "@", "a">>,
     <<"a", "leadsto", "@", "b", " ", "!", "@", "a", "---", "b">>,
     <<">", "@", "\"", "a", " ", "<", "@", "b", "\"", "<", "@", "\"", "a">>}

\* the texts read for a file whose frontmatter is v
TextsFor(v) ==
    IF v \in PlainFmInputs THEN ShortTexts \cup ScenarioTexts ELSE ScenarioTexts

InitParse == GraphIdle /\ ParseIdle /\ ForceIdle /\ LayoutIdle /\ BuildIdle /\ ReduceIdle /\ RefreshIdle

ParseNoteLinksStart ==
    /\ \E f \in Files :
          /\ pstate[f] = "idle"
          /\ \E v \in FmInputs \cup PlainFmInputs : ParseStart(f, v)
    /\ UNCHANGED <<graphVars, forceVars, layoutVars, buildVars, reduceVars, refreshVars>>

ParseNoteLinksRead ==
    /\ \E f \in Files :
          /\ pstate[f] = "reading"
          /\ \E text \in TextsFor(fm[f]) : ParseReadOk(f, text)
    /\ UNCHANGED <<graphVars, forceVars, layoutVars, buildVars, reduceVars, refreshVars>>

ParseNoteLinksUnreadable ==
    /\ \E f \in Files : ParseReadFail(f)
    /\ UNCHANGED <<graphVars, forceVars, layoutVars, buildVars, reduceVars, refreshVars>>

NextParse == ParseNoteLinksStart \/ ParseNoteLinksRead \/ ParseNoteLinksUnreadable

SpecParse == InitParse /\ [][NextParse]_vars

\* ------------------------------------------------------------------------
\* Properties of link extraction
\* ------------------------------------------------------------------------

Returned(f) == pstate[f] \in {"done", "failed"}

\* C6: for every metadata value (absent, scalar or list, with empty and
\* whitespace-only entries) and every body text, none of the three lists
\* parseNoteLinks returns holds the empty string, and none holds a target twice.
C6_NoEmptyNoDuplicate ==
    \A f \in Files :
        Returned(f) =>
            \A type \in LinkTypes :
                /\ <<>> \notin Range(links[f][type])
                /\ NoDup(links[f][type])

\* C6 witness: a list value with an empty, a blank and a repeated entry was
\* normalised, and the body scan added a target
C6_Witness ==
    \E f \in Files :
        /\ pstate[f] = "done"
        /\ \E type \in LinkTypes :
              /\ fm[f][type].t = "list"
              /\ Str(<<>>) \in Range(fm[f][type].xs)
              /\ Len(links[f][type]) < Len(fm[f][type].xs)
              /\ Len(links[f][type]) > Len(ToArray(fm[f][type]))

\* the body of a note: the text after a leading ---...--- block
BodyOf(text) ==
    IF text # <<>> /\ text[1] = "---" /\ \E j \in 2..Len(text) : text[j] = "---"
    THEN LET j == CHOOSE k \in 2..Len(text) :
                     text[k] = "---" /\ \A l \in 2..(k - 1) : text[l] # "---"
             k == IF j < Len(text) /\ text[j + 1] = "\n" THEN j + 1 ELSE j
         IN [i \in 1..(Len(text) - k) |-> text[k + i]]
    ELSE text

ShorthandOf(type) ==
    CASE type = "leadsto" -> ">" [] type = "dependson" -> "<" [] type = "informedby" -> "!"

\* a tag of the given type starts at i: keyword (at a word start) or shorthand, then @
TagHead(body, i, type) ==
    /\ i + 1 <= Len(body)
    /\ body[i + 1] = "@"
    /\ \/ body[i] = type /\ (i = 1 \/ body[i - 1] \notin WordTokens)
       \/ body[i] = ShorthandOf(type)

\* body[i..e] is a tag with a quoted target
QuotedTag(body, i, e) ==
    /\ e >= i + 4 /\ e <= Len(body)
    /\ body[i + 2] = "\"" /\ body[e] = "\""
    /\ \A k \in (i + 3)..(e - 1) : body[k] # "\""

\* body[i..e] is a tag with an unquoted target, as long as it can be
UnquotedTag(body, i, e) ==
    /\ e >= i + 2 /\ e <= Len(body)
    /\ \A k \in (i + 2)..e : IsTargetTok(body[k])
    /\ e = Len(body) \/ ~IsTargetTok(body[e + 1])

\* the end of the tag starting at i, 0 when none does
TagEnd(body, i) ==
    IF \E type \in LinkTypes : TagHead(body, i, type)
          /\ \E e \in 1..Len(body) : QuotedTag(body, i, e) \/ UnquotedTag(body, i, e)
    THEN CHOOSE e \in 1..Len(body) : QuotedTag(body, i, e) \/ UnquotedTag(body, i, e)
    ELSE 0

\* the positions where a tag occurs: a tag starts there, outside every
\* tag occurring further left
TagOccurrences(body) ==
    LET occ[i \in 0..Len(body)] ==
            IF i = 0 THEN FALSE
            ELSE /\ TagEnd(body, i) # 0
                 /\ \A j \in 1..(i - 1) : occ[j] => TagEnd(body, j) < i
    IN {i \in 1..Len(body) : occ[i]}

TagTarget(body, i) ==
    IF QuotedTag(body, i, TagEnd(body, i))
    THEN SubSeq(body, i + 3, TagEnd(body, i) - 1)
    ELSE SubSeq(body, i + 2, TagEnd(body, i))

\* the targets of the inline tags of one type, by keyword or by shorthand
BodyTagTargets(body, type) ==
    {TagTarget(body, i) : i \in {k \in TagOccurrences(body) : TagHead(body, k, type)}}

\* C7: for each relationship kind the list parseNoteLinks returns is, as a
\* set, the union of the normalized frontmatter values of that kind and the
\* targets of the inline body tags of that kind, a shorthand tag counting as
\* its keyword tag and a quoted target possibly holding spaces; a target
\* given several times appears once.
C7_UnionOfSources ==
    \A f \in Files :
        pstate[f] = "done" =>
            \A type \in LinkTypes :
                /\ Range(links[f][type]) =
                       Range(ToArray(fm[f][type])) \cup BodyTagTargets(BodyOf(raw[f]), type)
                /\ NoDup(links[f][type])

\* C7 witness: one target given by the frontmatter, by a shorthand tag and
\* by a keyword tag, and a quoted target with a space, in one note
C7_Witness ==
    \E f \in Files :
        /\ pstate[f] = "done"
        /\ \E type \in LinkTypes :
              LET body == BodyOf(raw[f])
                  occ == {k \in TagOccurrences(body) :
                             TagHead(body, k, type) /\ TagTarget(body, k) = <<"a">>}
              IN /\ <<"a">> \in Range(ToArray(fm[f][type]))
                 /\ \E i, j \in occ : body[i] = type /\ body[j] = ShorthandOf(type)
        /\ <<"a", " ", "b">> \in Range(links[f]["leadsto"])

\* ------------------------------------------------------------------------
\* buildFullGraph over the notes of a vault (parser.ts lines 80-88): every
\* note is parsed, the reads resolve or reject in any order, and each
\* result is stored under the note's name.
\* ------------------------------------------------------------------------

\* app.vault.getMarkdownFiles()
VaultFiles == {"n1", "n2"}

\* the frontmatters of the notes of the vault
BuildFmInputs ==
    PlainFmInputs
    \cup {[leadsto |-> List(<<Str(<<>>), Str(<<"b">>), Str(<<"b">>)>>),
           dependson |-> Null,
           informedby |-> Str(<<"a", " ", "b">>)]}

\* the texts of the notes of the vault
BuildTexts ==
    {<<>>,
     <<"leadsto", "@", "a", " ", "<", "@", "b">>,
     <<"---", "\n", "leadsto", "@", "b", "\n", "---", "\n", "!", "@", "a">>}

\* Map.set(key, value)
MapSet(map, key, value) ==
    [k \in DOMAIN map \cup {key} |-> IF k = key THEN value ELSE map[k]]

InitBuild ==
    /\ GraphIdle /\ ForceIdle /\ LayoutIdle /\ BuildIdle /\ ReduceIdle /\ RefreshIdle
    /\ fm = [f \in VaultFiles |-> NoFrontmatter]
    /\ raw = [f \in VaultFiles |-> <<>>]
    /\ pstate = [f \in VaultFiles |-> "idle"]
    /\ pending = [f \in VaultFiles |-> NoSets]
    /\ links = [f \in VaultFiles |-> NoteLinks(<<>>, <<>>, <<>>)]
    /\ lastIndex = 0

\* buildFullGraph to the await of Promise.all: mdFiles.map starts
\* parseNoteLinks for every note, each running to its own await
BuildFullGraphStart ==
    /\ bstate = "idle"
    /\ \E v \in [VaultFiles -> BuildFmInputs] :
          /\ fm' = v
          /\ pending' = [f \in VaultFiles |-> SetsOfFrontmatter(v[f])]
    /\ pstate' = [f \in VaultFiles |-> "reading"]
    /\ bstate' = "building"
    /\ UNCHANGED <<raw, links, lastIndex, built, graphVars, forceVars, layoutVars, reduceVars, refreshVars>>

\* the read of one note resolves: parseNoteLinks returns, graph.set stores
BuildNoteRead ==
    /\ bstate = "building"
    /\ \E f \in VaultFiles :
          /\ pstate[f] = "reading"
          /\ \E text \in BuildTexts : ParseReadOk(f, text)
          /\ built' = MapSet(built, f, links'[f])
    /\ UNCHANGED <<bstate, graphVars, forceVars, layoutVars, reduceVars, refreshVars>>

\* the read of one note rejects: parseNoteLinks returns, graph.set stores
BuildNoteUnreadable ==
    /\ bstate = "building"
    /\ \E f \in VaultFiles :
          /\ ParseReadFail(f)
          /\ built' = MapSet(built, f, links'[f])
    /\ UNCHANGED <<bstate, graphVars, forceVars, layoutVars, reduceVars, refreshVars>>

\* Promise.all resolves: every note's callback has finished
BuildFullGraphAssembled ==
    /\ bstate = "building"
    /\ \A f \in VaultFiles : Returned(f)
    /\ bstate' = "assembled"
    /\ UNCHANGED <<built, parseVars, graphVars, forceVars, layoutVars, reduceVars, refreshVars>>

NextBuild ==
    BuildFullGraphStart \/ BuildNoteRead \/ BuildNoteUnreadable \/ BuildFullGraphAssembled

SpecBuild == InitBuild /\ [][NextBuild]_vars

\* the targets a frontmatter value gives: the strings of its entries that
\* are not empty
FmTargets(val) ==
    CASE val.t = "list" -> {StringOf(x) : x \in Range(val.xs)} \ {<<>>}
      [] val.t = "str" -> {val.s} \ {<<>>}
      [] val.t = "num" -> IF val.n = 0 THEN {} ELSE {StringOf(val)}
      [] OTHER -> {}

\* C12: if reading a note's body fails, parseNoteLinks raises no error and
\* returns exactly the targets normalised from the note's frontmatter;
\* buildFullGraph still gets to the end of its Promise.all, and the graph
\* then has an entry for every note, the unreadable ones included.
C12_UnreadableFallsBack ==
    /\ \A f \in VaultFiles :
          pstate[f] = "failed" =>
              /\ f \in DOMAIN built /\ built[f] = links[f]
              /\ \A type \in LinkTypes :
                    /\ Range(links[f][type]) = FmTargets(fm[f][type])
                    /\ NoDup(links[f][type])
    /\ bstate = "building" => ENABLED NextBuild
    /\ bstate = "assembled" =>
          /\ DOMAIN built = VaultFiles
          /\ \A f \in VaultFiles : built[f] = links[f]

\* C12 witness: the graph is assembled, one note was unreadable and has
\* frontmatter targets, the other was read and its body gave a target
C12_Witness ==
    /\ bstate = "assembled"
    /\ \E f, g \in VaultFiles :
          /\ pstate[f] = "failed"
          /\ built[f]["leadsto"] # <<>>
          /\ pstate[g] = "done"
          /\ Len(built[g]["leadsto"]) > Len(ToArray(fm[g]["leadsto"]))

\* ------------------------------------------------------------------------
\* The graphs a vault can declare
\* ------------------------------------------------------------------------

\* a declared link: <<type, source document, target>>
AllEdges == LinkTypes \X Docs \X Targets

LeadsToEdges == {"leadsto"} \X Docs \X Targets

RECURSIVE SubsetsUpTo(_, _)
SubsetsUpTo(S, k) ==
    IF k = 0 THEN {{}}
    ELSE LET P == SubsetsUpTo(S, k - 1)
         IN P \cup {p \cup {e} : p \in P, e \in S}

DeclaredEdgeSets ==
    SubsetsUpTo(AllEdges, MaxEdges) \cup SubsetsUpTo(LeadsToEdges, MaxLeadsTo)

\* the order in which the Map received its keys (every other processing
\* order is quantified over in the properties that speak of the order)
Orders == {<<"A", "B", "C">>}

\* the array a note declares for one link type, in the order given by ord
DeclaredList(E, type, doc, ord) ==
    FilterIn(ord \o <<"X">>, {t \in Targets : <<type, doc, t>> \in E})

\* the graph buildFullGraph assembles from the declared links
DeclaredGraph(E, ord) ==
    [doc \in Docs |->
        NoteLinks(DeclaredList(E, "leadsto", doc, ord),
                  DeclaredList(E, "dependson", doc, ord),
                  DeclaredList(E, "informedby", doc, ord))]

\* buildFullGraph that runs the inference whatever `infer` says
BuildFullGraph_AlwaysInfer(declared, ord, infer, reduceTransitive) ==
    LET g1 == InferBidirectionalLinksOp(declared, ord)
    IN IF reduceTransitive THEN ApplyTransitiveReductionOp(g1, ord) ELSE g1

\* buildFullGraph(app, infer, reduceTransitive) on the declared links
BuildFullGraph(declared, ord, infer, reduceTransitive) ==
    LET g1 == IF infer THEN InferBidirectionalLinksOp(declared, ord) ELSE declared
    IN IF reduceTransitive THEN ApplyTransitiveReductionOp(g1, ord) ELSE g1

\* ------------------------------------------------------------------------
\* The force-directed renderer (forceGraph.ts).  Coordinates and
\* velocities are fixed-point numbers, Scale units to the pixel.
\* ------------------------------------------------------------------------

\* the resolution of the fixed-point coordinates
Scale == 10

MAX_TICKS == 500

SVG_HALF == 2000

\* cfg.repulsion ?? 5500
REPULSION == 5500

\* cfg.springK ?? 0.03, in hundredths
SPRING_K == 3

\* cfg.restLen ?? 120
REST_LEN == 120

\* cfg.gravity ?? 0.03, in hundredths
GRAVITY == 3

\* cfg.damping ?? 0.85, in hundredths
DAMPING == 85

\* cfg.nodeBaseR ?? 7
BASE_R == 7

\* cfg.nodeMaxAddR ?? 8
MAX_ADD_R == 8

\* Bound: the number of stop() calls told apart
MaxStopCalls == 2

\* division rounding toward zero
TDiv(a, b) == IF a >= 0 THEN a \div b ELSE -((-a) \div b)

Min(a, b) == IF a <= b THEN a ELSE b

Max(a, b) == IF a >= b THEN a ELSE b

\* Math.sqrt, rounded down: the largest r in lo..hi with r * r <= n.
\* (Here and in the loops below the value of one iteration is bound by a
\* one-element set before the next iteration starts, as the code's
\* statements are executed one after the other.)
RECURSIVE SqrtSearch(_, _, _)
SqrtSearch(n, lo, hi) ==
    IF lo >= hi THEN lo
    ELSE CHOOSE r \in {IF mid * mid <= n THEN SqrtSearch(n, mid, hi)
                                         ELSE SqrtSearch(n, lo, mid - 1) :
                        mid \in {(lo + hi + 1) \div 2}} : TRUE

Sqrt(n) == SqrtSearch(n, 0, Min(n, 46340))

\* the keys of the graph in iteration order: nodeList
NodeList == <<"A", "B", "C">>

\* a repulsion that pushes the two nodes apart at once, moving them as well
Repel_MovesNodes(ns, a, b) ==
    LET dx == ns[b].x - ns[a].x
        dy == ns[b].y - ns[a].y
        s2 == dx * dx + dy * dy
        d2 == IF s2 = 0 THEN 1 ELSE s2
        d  == Max(Sqrt(d2), 1)
        f  == (REPULSION * Scale * Scale * Scale) \div d2
        fx == TDiv(dx * f, d)
        fy == TDiv(dy * f, d)
    IN [ns EXCEPT ![a].vx = @ - fx, ![a].vy = @ - fy, ![a].x = @ - fx, ![a].y = @ - fy,
                  ![b].vx = @ + fx, ![b].vy = @ + fy, ![b].x = @ + fx, ![b].y = @ + fy]

\* the repulsion of the pair a, b added to the velocities (lines 395-404)
Repel(ns, a, b) ==
    LET dx == ns[b].x - ns[a].x
        dy == ns[b].y - ns[a].y
        s2 == dx * dx + dy * dy
        d2 == IF s2 = 0 THEN 1 ELSE s2
        d  == Max(Sqrt(d2), 1)
        f  == (REPULSION * Scale * Scale * Scale) \div d2
        fx == TDiv(dx * f, d)
        fy == TDiv(dy * f, d)
    IN [ns EXCEPT ![a].vx = @ - fx, ![a].vy = @ - fy,
                  ![b].vx = @ + fx, ![b].vy = @ + fy]

\* the two nested loops of the repulsion, from the pair (i, j) on
RECURSIVE RepelFrom(_, _, _)
RepelFrom(ns, i, j) ==
    IF i > Len(NodeList) - 1 THEN ns
    ELSE IF j > Len(NodeList) THEN RepelFrom(ns, i + 1, i + 2)
    ELSE CHOOSE r \in {RepelFrom(n1, i, j + 1) :
                        n1 \in {Repel(ns, NodeList[i], NodeList[j])}} : TRUE

\* the spring of one edge added to the velocities (lines 410-420)
Spring(ns, edge) ==
    IF edge.source \notin DOMAIN ns \/ edge.target \notin DOMAIN ns THEN ns
    ELSE LET s  == edge.source
             t  == edge.target
             dx == ns[t].x - ns[s].x
             dy == ns[t].y - ns[s].y
             r  == Sqrt(dx * dx + dy * dy)
             d  == IF r = 0 THEN Scale ELSE r
             f  == TDiv(SPRING_K * (d - REST_LEN * Scale), 100)
             fx == TDiv(dx * f, d)
             fy == TDiv(dy * f, d)
             n1 == [ns EXCEPT ![s].vx = @ + fx, ![s].vy = @ + fy]
         IN [n1 EXCEPT ![t].vx = @ - fx, ![t].vy = @ - fy]

RECURSIVE SpringsFrom(_, _, _)
SpringsFrom(ns, edges, k) ==
    IF k > Len(edges) THEN ns
    ELSE CHOOSE r \in {SpringsFrom(n1, edges, k + 1) : n1 \in {Spring(ns, edges[k])}} : TRUE

\* gravity, damping and the Euler step of one node (lines 425-428)
Integrate(n) ==
    LET vx == TDiv((n.vx * 100 - n.x * GRAVITY) * DAMPING, 10000)
        vy == TDiv((n.vy * 100 - n.y * GRAVITY) * DAMPING, 10000)
    IN [n EXCEPT !.vx = vx, !.vy = vy, !.x = @ + vx, !.y = @ + vy]

\* the loop over nodeList that integrates every node, from the k-th on
RECURSIVE IntegrateFrom(_, _)
IntegrateFrom(ns, k) ==
    IF k > Len(NodeList) THEN ns
    ELSE CHOOSE r \in {IntegrateFrom(n1, k + 1) :
                        n1 \in {[ns EXCEPT ![NodeList[k]] = Integrate(@)]}} : TRUE

\* applyForces(): one physics tick
ApplyForces(ns, edges) ==
    IntegrateFrom(SpringsFrom(RepelFrom(ns, 1, 2), edges, 1), 1)

\* `steps` physics ticks in a row; once a tick changes nothing, none does
RECURSIVE ApplyForcesTimes(_, _, _)
ApplyForcesTimes(ns, edges, steps) ==
    IF steps = 0 THEN ns
    ELSE CHOOSE r \in {IF next = ns THEN ns
                                   ELSE ApplyForcesTimes(next, edges, steps - 1) :
                        next \in {ApplyForces(ns, edges)}} : TRUE

\* the three lists of one note, dangling targets included
ResolvableTargets_NoFilter(g, name) ==
    g[name].leadsto \o g[name].dependson \o g[name].informedby

\* the array filter(t => graph.has(t)) over the three lists of one note
ResolvableTargets(g, name) ==
    FilterIn(g[name].leadsto \o g[name].dependson \o g[name].informedby, DOMAIN g)

RECURSIVE CountOf(_, _)
CountOf(list, x) ==
    IF list = <<>> THEN 0
    ELSE (IF Head(list) = x THEN 1 ELSE 0) + CountOf(Tail(list), x)

RECURSIVE SumCountOf(_, _, _)
SumCountOf(g, names, x) ==
    IF names = <<>> THEN 0
    ELSE CountOf(ResolvableTargets(g, Head(names)), x) + SumCountOf(g, Tail(names), x)

\* buildData: total connections (out + in) of a note
Degree(g, name) == Len(ResolvableTargets(g, name)) + SumCountOf(g, NodeList, name)

\* Math.cos(angle) * spread and Math.sin(angle) * spread for the i-th of
\* three names, spread = Math.max(300, 3 * 14), in pixels
CirclePoint(i) ==
    CASE i = 1 -> <<300, 0>>
      [] i = 2 -> <<-150, 260>>
      [] i = 3 -> <<-150, -260>>

IndexOf(list, x) == CHOOSE i \in 1..Len(list) : list[i] = x

\* buildData: the FNode of each note; jitter is what Math.random() gave
BuildNodes(g, jitter) ==
    [name \in DOMAIN g |->
        [x  |-> CirclePoint(IndexOf(NodeList, name))[1] * Scale + jitter[name][1],
         y  |-> CirclePoint(IndexOf(NodeList, name))[2] * Scale + jitter[name][2],
         vx |-> 0,
         vy |-> 0,
         r  |-> BASE_R + Min(Degree(g, name), MAX_ADD_R)]]

\* the edges of one list whose target is a node
RECURSIVE EdgesOfList(_, _, _, _)
EdgesOfList(g, name, type, list) ==
    IF list = <<>> THEN <<>>
    ELSE (IF Head(list) \in DOMAIN g
          THEN <<[source |-> name, target |-> Head(list), type |-> type]>>
          ELSE <<>>) \o EdgesOfList(g, name, type, Tail(list))

RECURSIVE BuildEdgesFrom(_, _)
BuildEdgesFrom(g, names) ==
    IF names = <<>> THEN <<>>
    ELSE LET name == Head(names)
         IN EdgesOfList(g, name, "leadsto", g[name].leadsto)
            \o EdgesOfList(g, name, "dependson", g[name].dependson)
            \o EdgesOfList(g, name, "informedby", g[name].informedby)
            \o BuildEdgesFrom(g, Tail(names))

\* buildData: the FEdge array
BuildEdges(g) == BuildEdgesFrom(g, NodeList)

\* requestAnimationFrame(cb) on the browser's queue
RequestFrame(queue, id, cb) == Append(queue, [id |-> id, cb |-> cb])

\* cancelAnimationFrame(id)
RECURSIVE CancelFrame(_, _)
CancelFrame(queue, id) ==
    IF queue = <<>> THEN <<>>
    ELSE IF Head(queue).id = id THEN CancelFrame(Tail(queue), id)
    ELSE <<Head(queue)>> \o CancelFrame(Tail(queue), id)

\* the links the vault declares when the network view is opened
ForceGraphs ==
    {DeclaredGraph(E, NodeList) :
        E \in {{},
               {<<"leadsto", "A", "B">>, <<"leadsto", "B", "C">>, <<"informedby", "A", "X">>},
               {<<"leadsto", "A", "B">>, <<"dependson", "B", "A">>, <<"leadsto", "C", "A">>,
                <<"informedby", "C", "B">>},
               {<<"leadsto", "A", "B">>, <<"leadsto", "B", "C">>, <<"leadsto", "A", "C">>,
                <<"dependson", "C", "A">>, <<"leadsto", "A", "X">>},
               {<<"leadsto", "A", "A">>, <<"dependson", "B", "X">>, <<"dependson", "B", "C">>,
                <<"informedby", "C", "C">>}}}

\* what (Math.random() - 0.5) * 30 gave for each node
Jitters ==
    {[name \in Docs |-> <<0, 0>>],
     [name \in Docs |-> CASE name = "A" -> <<-15 * Scale, 14 * Scale>>
                          [] name = "B" -> <<14 * Scale, -15 * Scale>>
                          [] name = "C" -> <<7 * Scale, -3 * Scale>>]}

SavedPans == {NoSavedPan, [x |-> 35, y |-> -120, z |-> 200]}

\* wrapper.getBoundingClientRect(): width and height
WrapperRects == {<<400, 300>>, <<640, 480>>}

\* the vault as buildFullGraph assembles it, and a renderer just constructed
InitForce ==
    /\ graph \in ForceGraphs
    /\ order = NodeList
    /\ hist = <<>>
    /\ ops = <<>>
    /\ ParseIdle /\ ForceIdle /\ LayoutIdle /\ BuildIdle /\ ReduceIdle /\ RefreshIdle

\* createSVG that always requests the centering frame
FirstFrame_AlwaysCenter(fromSaved) == "center"

\* createSVG lines 215-225: the frame callback requested first
FirstFrame(fromSaved) == IF fromSaved THEN "applyT" ELSE "center"

\* the network branch of refresh: rawGraph = buildFullGraph(app, false,
\* applyInheritance), then mount(container, rawGraph, savedPan): buildData,
\* createSVG (which requests the centering frame), startRAF (which requests
\* the first loop frame)
Mount ==
    /\ rstate = "constructed"
    /\ \E inherit \in BOOLEAN, jitter \in Jitters, savedPan \in SavedPans :
          /\ fnodes' = BuildNodes(BuildFullGraph(graph, order, FALSE, inherit), jitter)
          /\ fedges' = BuildEdges(BuildFullGraph(graph, order, FALSE, inherit))
          /\ pan' = IF savedPan # NoSavedPan THEN savedPan ELSE pan
          /\ panFromSaved' = (savedPan # NoSavedPan)
          /\ savedArg' = savedPan
          /\ frames' = RequestFrame(
                           RequestFrame(frames, nextRaf, FirstFrame(savedPan # NoSavedPan)),
                           nextRaf + 1, "loop")
    /\ rafId' = nextRaf + 1
    /\ nextRaf' = nextRaf + 2
    /\ rstate' = "mounted"
    /\ UNCHANGED <<tick, stopCalls, userEvents, dragging, lastMouse,
                   graphVars, parseVars, layoutVars, buildVars, reduceVars, refreshVars>>

\* stop() that forgets the handle without cancelling the frame
Stop_NoCancel ==
    /\ rstate = "mounted"
    /\ rafId' = 0
    /\ stopCalls' = Min(stopCalls + 1, MaxStopCalls)
    /\ UNCHANGED <<rstate, fnodes, fedges, tick, pan, panFromSaved, frames, nextRaf,
                   savedArg, userEvents, dragging, lastMouse,
                   graphVars, parseVars, layoutVars, buildVars, reduceVars, refreshVars>>

\* stop() that resumes the loop when none is pending
Stop_Toggle ==
    /\ rstate = "mounted"
    /\ IF rafId # 0
       THEN /\ frames' = CancelFrame(frames, rafId)
            /\ rafId' = 0
            /\ UNCHANGED nextRaf
       ELSE /\ frames' = RequestFrame(frames, nextRaf, "loop")
            /\ rafId' = nextRaf
            /\ nextRaf' = nextRaf + 1
    /\ stopCalls' = Min(stopCalls + 1, MaxStopCalls)
    /\ UNCHANGED <<rstate, fnodes, fedges, tick, pan, panFromSaved, savedArg, userEvents, dragging, lastMouse,
                   graphVars, parseVars, layoutVars, buildVars, reduceVars, refreshVars>>

\* stop(), called by the tree view on the renderer it mounted
Stop ==
    /\ rstate = "mounted"
    /\ IF rafId # 0
       THEN /\ frames' = CancelFrame(frames, rafId)
            /\ rafId' = 0
       ELSE UNCHANGED <<frames, rafId>>
    /\ stopCalls' = Min(stopCalls + 1, MaxStopCalls)
    /\ UNCHANGED <<rstate, fnodes, fedges, tick, pan, panFromSaved, nextRaf,
                   savedArg, userEvents, dragging, lastMouse,
                   graphVars, parseVars, layoutVars, buildVars, reduceVars, refreshVars>>

\* the frame callback of createSVG that centres the view (lines 216-221)
FrameCenter ==
    /\ frames # <<>>
    /\ Head(frames).cb = "center"
    /\ \E rect \in WrapperRects :
          pan' = [pan EXCEPT !.x = rect[1] \div 2 - SVG_HALF,
                             !.y = rect[2] \div 2 - SVG_HALF]
    /\ frames' = Tail(frames)
    /\ UNCHANGED <<rstate, fnodes, fedges, rafId, tick, panFromSaved, nextRaf, stopCalls,
                   savedArg, userEvents, dragging, lastMouse,
                   graphVars, parseVars, layoutVars, buildVars, reduceVars, refreshVars>>

\* the frame callback of createSVG that only applies the transform (line 224)
FrameApplyT ==
    /\ frames # <<>>
    /\ Head(frames).cb = "applyT"
    /\ frames' = Tail(frames)
    /\ UNCHANGED <<rstate, fnodes, fedges, rafId, tick, pan, panFromSaved, nextRaf,
                   stopCalls, savedArg, userEvents, dragging, lastMouse,
                   graphVars, parseVars, layoutVars, buildVars, reduceVars, refreshVars>>

\* a loop that runs three sub-steps in every frame
StepsFor_Three(t) == 3

\* a loop that keeps the five sub-steps of the early frames throughout
StepsFor_AlwaysFive(t) == 5

\* line 371: the sub-steps of a frame that starts with the tick counter at t
StepsFor(t) == IF t < 60 THEN 5 ELSE IF t < 200 THEN 2 ELSE 1

\* the frame callback `loop` of startRAF (lines 368-378)
FrameLoop ==
    /\ frames # <<>>
    /\ Head(frames).cb = "loop"
    /\ IF tick >= MAX_TICKS
       THEN /\ rafId' = 0
            /\ frames' = Tail(frames)
            /\ UNCHANGED <<fnodes, tick, nextRaf>>
       ELSE LET steps == StepsFor(tick)
            IN /\ fnodes' = ApplyForcesTimes(fnodes, fedges, steps)
               /\ tick' = tick + steps
               /\ rafId' = nextRaf
               /\ frames' = RequestFrame(Tail(frames), nextRaf, "loop")
               /\ nextRaf' = nextRaf + 1
    /\ UNCHANGED <<rstate, fedges, pan, panFromSaved, stopCalls, savedArg, userEvents, dragging, lastMouse,
                   graphVars, parseVars, layoutVars, buildVars, reduceVars, refreshVars>>

NextForce == Mount \/ Stop \/ FrameCenter \/ FrameApplyT \/ FrameLoop

SpecForce == InitForce /\ [][NextForce]_vars

\* ------------------------------------------------------------------------
\* The renderer with the user's mouse: the listeners createSVG registers
\* ------------------------------------------------------------------------

MaxUserEvents == 1

\* e.clientX, e.clientY of a mouse event (the wrapper's rect starts at 0, 0):
\* where a button goes down and a wheel turns, and where the pointer moves to
PressPoint == <<100, 100>>

MousePoints == {PressPoint, <<130, 80>>}

\* the vault of the pan/zoom runs: one declared edge and one dangling target
InitPan ==
    /\ InitForce
    /\ graph = DeclaredGraph({<<"A", "leadsto", "B">>, <<"B", "leadsto", "X">>}, NodeList)

\* the renderer of that vault when the browser keeps running the frame
\* callbacks that were requested
SpecForceFair ==
    InitPan /\ [][NextForce]_vars /\ WF_vars(FrameCenter \/ FrameApplyT \/ FrameLoop)

\* the mousedown listener (lines 244-253): only the primary button starts a drag
MouseDown ==
    /\ rstate = "mounted"
    /\ \E button \in {0, 2}, p \in {PressPoint} :
          IF button # 0
          THEN UNCHANGED <<dragging, lastMouse>>
          ELSE /\ dragging' = TRUE
               /\ lastMouse' = p
    /\ UNCHANGED <<rstate, fnodes, fedges, rafId, tick, pan, panFromSaved, frames, nextRaf,
                   stopCalls, savedArg, userEvents,
                   graphVars, parseVars, layoutVars, buildVars, reduceVars, refreshVars>>

\* onMove (lines 229-236), registered on the document while a drag lasts
MouseMove ==
    /\ rstate = "mounted"
    /\ dragging
    /\ userEvents < MaxUserEvents
    /\ \E p \in MousePoints :
          /\ pan' = [pan EXCEPT !.x = pan.x + (p[1] - lastMouse[1]),
                                !.y = pan.y + (p[2] - lastMouse[2])]
          /\ lastMouse' = p
    /\ userEvents' = userEvents + 1
    /\ UNCHANGED <<rstate, fnodes, fedges, rafId, tick, panFromSaved, frames, nextRaf,
                   stopCalls, savedArg, dragging,
                   graphVars, parseVars, layoutVars, buildVars, reduceVars, refreshVars>>

\* onUp (lines 237-242)
MouseUp ==
    /\ rstate = "mounted"
    /\ dragging
    /\ dragging' = FALSE
    /\ UNCHANGED <<rstate, fnodes, fedges, rafId, tick, pan, panFromSaved, frames, nextRaf,
                   stopCalls, savedArg, userEvents, lastMouse,
                   graphVars, parseVars, layoutVars, buildVars, reduceVars, refreshVars>>

\* the wheel listener (lines 255-265): factor 1.1 or 1 / 1.1 about the pointer,
\* in integer arithmetic
Wheel ==
    /\ rstate = "mounted"
    /\ userEvents < MaxUserEvents
    /\ \E zoomIn \in BOOLEAN, p \in {PressPoint} :
          LET num == IF zoomIn THEN 11 ELSE 10
              den == IF zoomIn THEN 10 ELSE 11
          IN  pan' = [x |-> p[1] - TDiv((p[1] - pan.x) * num, den),
                      y |-> p[2] - TDiv((p[2] - pan.y) * num, den),
                      z |-> TDiv(pan.z * num, den)]
    /\ userEvents' = userEvents + 1
    /\ UNCHANGED <<rstate, fnodes, fedges, rafId, tick, panFromSaved, frames, nextRaf,
                   stopCalls, savedArg, dragging, lastMouse,
                   graphVars, parseVars, layoutVars, buildVars, reduceVars, refreshVars>>

NextPan == NextForce \/ MouseDown \/ MouseMove \/ MouseUp \/ Wheel

SpecPan == InitPan /\ [][NextPan]_vars

\* getPanZoom() (lines 110-112)
GetPanZoom == pan

\* C17: once mount was given a saved pan/zoom, getPanZoom() returns exactly
\* that value in every state in which no mouse move of a drag and no wheel
\* event has happened yet, whatever physics ticks, stop() calls and frame
\* callbacks of createSVG have run.
C17_SavedPanPreserved ==
    (rstate = "mounted" /\ savedArg # NoSavedPan /\ userEvents = 0)
        => GetPanZoom = savedArg

\* mounted with a saved pan/zoom, every frame callback ran, ticks ran, stop()
\* was called, the mouse went down, and no move or wheel event happened
C17_Witness ==
    /\ rstate = "mounted"
    /\ savedArg # NoSavedPan
    /\ userEvents = 0
    /\ tick >= 2
    /\ stopCalls >= 1
    /\ frames = <<>>
    /\ dragging
    /\ GetPanZoom = savedArg

\* ------------------------------------------------------------------------
\* Properties of the force-directed renderer
\* ------------------------------------------------------------------------

\* C8: stop() may be called in any state of a mounted renderer (before the
\* first tick, while running, after the tick cap); once it has been called
\* no physics tick runs: the tick counter and every node's position and
\* velocity stay as they are in every later step.
C8_StopHaltsTicks ==
    [][ /\ (rstate = "mounted" => ENABLED Stop)
        /\ (stopCalls >= 1 => (tick' = tick /\ fnodes' = fnodes)) ]_vars

\* C8 witness: stop() was called while the simulation was running, and a
\* later step was taken
C8_Witness ==
    /\ stopCalls >= 2
    /\ tick > 0 /\ tick < MAX_TICKS
    /\ rafId = 0
    /\ frames = <<>>

\* C9: stop() is idempotent: a second and any further call, also after the
\* tick cap was reached, leaves the pending frame handle, the frame queue,
\* the tick counter, the positions and the pan/zoom as the first call left them.
C9_StopIdempotent ==
    [][ (stopCalls >= 1 /\ stopCalls' = stopCalls + 1) =>
            /\ rafId' = rafId /\ rafId = 0
            /\ frames' = frames
            /\ tick' = tick
            /\ fnodes' = fnodes
            /\ pan' = pan ]_vars

\* C9 witness: stop() was called twice after the simulation had reached
\* the tick cap
C9_Witness ==
    /\ stopCalls >= 2
    /\ tick >= MAX_TICKS

\* the links of a graph, as triples of type, source and target
LinksOf(g) ==
    UNION {{<<type, doc, t>> : t \in Range(g[doc][type])} :
              type \in LinkTypes, doc \in DOMAIN g}

\* the layout edges, as triples of type, source and target
EdgeLinks == {<<fedges[i].type, fedges[i].source, fedges[i].target>> : i \in 1..Len(fedges)}

\* C11: buildFullGraph with infer = false returns only links some note
\* declares (with reduceTransitive = true a subset of them), so every edge
\* the force layout of the network view builds is a declared link, never
\* an inferred inverse.
C11_NetworkEdgesDeclared ==
    /\ \A inherit \in BOOLEAN :
           LinksOf(BuildFullGraph(graph, order, FALSE, inherit)) \subseteq LinksOf(graph)
    /\ LinksOf(BuildFullGraph(graph, order, FALSE, FALSE)) = LinksOf(graph)
    /\ rstate = "mounted" => EdgeLinks \subseteq LinksOf(graph)

\* C11 witness: a mounted network view of a vault for which the inference
\* would add inverse links, and where the reduction dropped a declared link
C11_Witness ==
    /\ rstate = "mounted"
    /\ fedges # <<>>
    /\ ~(LinksOf(InferBidirectionalLinksOp(graph, order)) \subseteq LinksOf(graph))
    /\ \E l \in LinksOf(graph) : l[3] \in Docs /\ l \notin EdgeLinks

\* the number of layout edges that leave or enter a node
IncidentEdges(name) ==
    Cardinality({i \in 1..Len(fedges) : fedges[i].source = name})
    + Cardinality({i \in 1..Len(fedges) : fedges[i].target = name})

\* C14: the force layout filters dangling references: after buildData every
\* layout edge has its source and its target among the layout nodes, the
\* nodes are exactly the notes of the graph, the edges are exactly the
\* links of the mounted graph whose target is a note, and the degree that
\* sizes a node counts these edges only, so a dangling target adds nothing.
C14_ForceLayoutFiltersDangling ==
    rstate = "mounted" =>
        /\ DOMAIN fnodes = DOMAIN graph
        /\ \A i \in 1..Len(fedges) :
               fedges[i].source \in DOMAIN fnodes /\ fedges[i].target \in DOMAIN fnodes
        /\ \E inherit \in BOOLEAN :
               EdgeLinks = {l \in LinksOf(BuildFullGraph(graph, order, FALSE, inherit)) :
                               l[3] \in DOMAIN graph}
        /\ Cardinality(EdgeLinks) = Len(fedges)
        /\ \A name \in DOMAIN fnodes :
               fnodes[name].r = BASE_R + Min(IncidentEdges(name), MAX_ADD_R)

\* C14 witness: a mounted graph one of whose notes has a link to a note
\* and a link to a dangling target
C14_Witness ==
    /\ rstate = "mounted"
    /\ \E l, k \in LinksOf(graph) :
          /\ l[2] = k[2]
          /\ l[3] \notin DOMAIN graph
          /\ k \in EdgeLinks

\* ------------------------------------------------------------------------
\* The mindmap layout of the tree view (buildTreeNode, buildParentNodes,
\* toMmNode, slotW, layoutDown, layoutUp, renderMindmap).  x and y are in
\* half pixels, so that the halves of the widths stay whole numbers.
\* ------------------------------------------------------------------------

MM_H_GAP == 20

MM_V_GAP == 80

MM_PAD == 40

\* DEFAULT_SETTINGS.parentDepth
ParentDepth == 2

\* Array.prototype.reduce((acc, v) => acc + v, 0)
RECURSIVE SumSeq(_)
SumSeq(list) == IF list = <<>> THEN 0 ELSE Head(list) + SumSeq(Tail(list))

\* refresh: informedbyOf.get(name) ?? [], the notes that list name as informedby
RECURSIVE InformedbyOfFrom(_, _, _)
InformedbyOfFrom(g, names, name) ==
    IF names = <<>> THEN <<>>
    ELSE (IF name \in Range(g[Head(names)].informedby) THEN <<Head(names)>> ELSE <<>>)
         \o InformedbyOfFrom(g, Tail(names), name)

InformedbyOf(g, name) == InformedbyOfFrom(g, NodeList, name)

\* the names in a tree
RECURSIVE NamesIn(_)
NamesIn(t) == {t.name} \cup UNION {NamesIn(t.children[i]) : i \in 1..Len(t.children)}

\* buildTreeNode with one visited set for the whole tree: what an earlier
\* sibling's subtree has visited is visited for the later siblings
RECURSIVE BuildTreeNode_SharedVisited(_, _, _, _, _, _)
RECURSIVE BuildChildren_SharedVisited(_, _, _, _, _, _)
BuildChildren_SharedVisited(g, limit, targets, k, depth, visited) ==
    IF k > Len(targets) THEN <<>>
    ELSE LET c == BuildTreeNode_SharedVisited(g, limit, targets[k][1], targets[k][2],
                                              depth, visited)
         IN <<c>> \o BuildChildren_SharedVisited(g, limit, targets, k + 1, depth,
                                                 visited \cup NamesIn(c))

BuildTreeNode_SharedVisited(g, limit, name, linkType, depth, visited) ==
    IF depth >= limit \/ name \in visited \/ name \notin DOMAIN g
    THEN [name |-> name, linkType |-> linkType, children |-> <<>>]
    ELSE LET ls == g[name].leadsto
             ib == g[name].informedby
         IN [name |-> name, linkType |-> linkType,
             children |->
                 BuildChildren_SharedVisited(
                     g, limit,
                     [i \in 1..Len(ls) |-> <<ls[i], "leadsto">>]
                     \o [i \in 1..Len(ib) |-> <<ib[i], "informedby">>],
                     1, depth + 1, visited \cup {name})]

\* buildTreeNode without the test of the visited set
RECURSIVE BuildTreeNode_NoVisitedTest(_, _, _, _, _, _)
BuildTreeNode_NoVisitedTest(g, limit, name, linkType, depth, visited) ==
    IF depth >= limit \/ name \notin DOMAIN g
    THEN [name |-> name, linkType |-> linkType, children |-> <<>>]
    ELSE LET ls   == g[name].leadsto
             ib   == g[name].informedby
         IN [name |-> name, linkType |-> linkType,
             children |->
                 [i \in 1..Len(ls) |->
                     BuildTreeNode_NoVisitedTest(g, limit, ls[i], "leadsto", depth + 1, visited)]
                 \o [i \in 1..Len(ib) |->
                     BuildTreeNode_NoVisitedTest(g, limit, ib[i], "informedby", depth + 1, visited)]]

\* buildTreeNode(name, linkType, depth, visited)
RECURSIVE BuildTreeNode(_, _, _, _, _, _)
BuildTreeNode(g, limit, name, linkType, depth, visited) ==
    IF depth >= limit \/ name \in visited \/ name \notin DOMAIN g
    THEN [name |-> name, linkType |-> linkType, children |-> <<>>]
    ELSE LET seen == visited \cup {name}
             ls   == g[name].leadsto
             ib   == g[name].informedby
         IN [name |-> name, linkType |-> linkType,
             children |->
                 [i \in 1..Len(ls) |->
                     BuildTreeNode(g, limit, ls[i], "leadsto", depth + 1, seen)]
                 \o [i \in 1..Len(ib) |->
                     BuildTreeNode(g, limit, ib[i], "informedby", depth + 1, seen)]]

\* buildParentNodes without the tests of the visited set
RECURSIVE BuildParentNodes_NoVisitedTest(_, _, _, _)
BuildParentNodes_NoVisitedTest(g, name, depth, visited) ==
    IF depth <= 0 THEN <<>>
    ELSE LET hierarchicalParents == IF name \in DOMAIN g THEN g[name].dependson ELSE <<>>
             contextParents == InformedbyOf(g, name)
         IN [i \in 1..Len(hierarchicalParents) |->
                [name |-> hierarchicalParents[i], linkType |-> "parent",
                 children |-> BuildParentNodes_NoVisitedTest(g, hierarchicalParents[i],
                                                             depth - 1, visited)]]
            \o [i \in 1..Len(contextParents) |->
                [name |-> contextParents[i], linkType |-> "informedby",
                 children |-> BuildParentNodes_NoVisitedTest(g, contextParents[i],
                                                             depth - 1, visited)]]

\* buildParentNodes(name, depth, visited, informedbyOf)
RECURSIVE BuildParentNodes(_, _, _, _)
BuildParentNodes(g, name, depth, visited) ==
    IF depth <= 0 THEN <<>>
    ELSE LET hierarchicalParents ==
                 FilterIn(IF name \in DOMAIN g THEN g[name].dependson ELSE <<>>,
                          Targets \ visited)
             contextParents == FilterIn(InformedbyOf(g, name), Targets \ visited)
         IN [i \in 1..Len(hierarchicalParents) |->
                [name |-> hierarchicalParents[i], linkType |-> "parent",
                 children |-> BuildParentNodes(g, hierarchicalParents[i], depth - 1,
                                               visited \cup {hierarchicalParents[i]})]]
            \o [i \in 1..Len(contextParents) |->
                [name |-> contextParents[i], linkType |-> "informedby",
                 children |-> BuildParentNodes(g, contextParents[i], depth - 1,
                                               visited \cup {contextParents[i]})]]

\* toMmNode(t)
RECURSIVE ToMmNode(_)
ToMmNode(t) ==
    [name |-> t.name, linkType |-> t.linkType, x |-> 0, y |-> 0,
     children |-> [i \in 1..Len(t.children) |-> ToMmNode(t.children[i])]]

\* slotW that gives every node one slot, whatever is below it
SlotW_Leaf(node, mmSlot) == mmSlot

\* slotW(node, mmSlot), in pixels
RECURSIVE SlotW(_, _)
SlotW(node, mmSlot) ==
    IF Len(node.children) = 0 THEN mmSlot
    ELSE LET childrenTotal ==
                 SumSeq([i \in 1..Len(node.children) |-> SlotW(node.children[i], mmSlot)])
                 + (Len(node.children) - 1) * MM_H_GAP
         IN Max(mmSlot, childrenTotal)

\* the band of a row of nodes: their slots and the gaps between them
BandW(children, mmSlot) ==
    SumSeq([i \in 1..Len(children) |-> SlotW(children[i], mmSlot)])
    + (Len(children) - 1) * MM_H_GAP

\* the loop of layoutDown (dir = 1) and layoutUp (dir = -1) from the k-th
\* child on, x being the left edge of the next slot
RECURSIVE LayoutFrom(_, _, _, _, _, _)
LayoutFrom(children, k, x, y, mmSlot, dir) ==
    IF k > Len(children) THEN <<>>
    ELSE LET c   == children[k]
             sw  == SlotW(c, mmSlot)
             cx  == x + sw
             sub == IF Len(c.children) = 0 THEN <<>>
                    ELSE LayoutFrom(c.children, 1, cx - BandW(c.children, mmSlot),
                                    y + dir * 2 * MM_V_GAP, mmSlot, dir)
         IN <<[c EXCEPT !.x = cx, !.y = y, !.children = sub]>>
            \o LayoutFrom(children, k + 1, x + 2 * (sw + MM_H_GAP), y, mmSlot, dir)

\* layoutDown(children, parentCX, y, mmSlot)
LayoutDown(children, parentCX, y, mmSlot) ==
    IF Len(children) = 0 THEN <<>>
    ELSE LayoutFrom(children, 1, parentCX - BandW(children, mmSlot), y, mmSlot, 1)

\* layoutUp(children, parentCX, y, mmSlot)
LayoutUp(children, parentCX, y, mmSlot) ==
    IF Len(children) = 0 THEN <<>>
    ELSE LayoutFrom(children, 1, parentCX - BandW(children, mmSlot), y, mmSlot, -1)

\* renderMindmap: the loop that places the parents of the root in a row
RECURSIVE PlaceParents(_, _, _, _, _)
PlaceParents(mmParents, k, startX, rootY, mmSlot) ==
    IF k > Len(mmParents) THEN <<>>
    ELSE LET mp == mmParents[k]
             sw == SlotW(mp, mmSlot)
             px == startX + sw
             py == rootY - 2 * MM_V_GAP
         IN <<[mp EXCEPT !.x = px, !.y = py,
                         !.children = LayoutUp(mp.children, px, py - 2 * MM_V_GAP, mmSlot)]>>
            \o PlaceParents(mmParents, k + 1, startX + 2 * (sw + MM_H_GAP), rootY, mmSlot)

\* renderMindmap(container, rootNode, parentNodes): the positions it computes
RenderMindmap(rootNode, parentNodes, r) ==
    LET mmSlot     == Max(54, r * 4)
        mmRoot     == ToMmNode(rootNode)
        mmParents  == [i \in 1..Len(parentNodes) |-> ToMmNode(parentNodes[i])]
        childBand  == SlotW(mmRoot, mmSlot)
        parentBand == IF Len(mmParents) > 0 THEN BandW(mmParents, mmSlot) ELSE 0
        innerW     == Max(Max(childBand, parentBand), mmSlot)
        totalWidth == innerW + MM_PAD * 2
        rootCX     == totalWidth
        rootY      == 2 * (MM_PAD + (IF Len(mmParents) > 0 THEN MM_V_GAP ELSE 0))
    IN [root |-> [mmRoot EXCEPT !.x = rootCX, !.y = rootY,
                                !.children = LayoutDown(mmRoot.children, rootCX,
                                                        rootY + 2 * MM_V_GAP, mmSlot)],
        parents |-> PlaceParents(mmParents, 1, totalWidth - parentBand, rootY, mmSlot),
        mmSlot |-> mmSlot,
        totalWidth |-> totalWidth]

\* refresh() in mindmap mode with the note `active` open
RefreshMindmap(active, r, inherit, limit) ==
    LET g == BuildFullGraph(graph, order, TRUE, inherit)
    IN /\ viewGraph' = g
       /\ rootName' = active
       /\ mm' = RenderMindmap(BuildTreeNode(g, limit, active, "root", 0, {}),
                              BuildParentNodes(g, active, ParentDepth, {active}), r)

\* the links the notes of the vault can declare
LayoutEdges ==
    {<<"leadsto", "A", "B">>, <<"leadsto", "A", "C">>, <<"leadsto", "B", "C">>,
     <<"leadsto", "B", "X">>, <<"leadsto", "C", "X">>,
     <<"informedby", "A", "X">>, <<"informedby", "C", "A">>,
     <<"dependson", "B", "X">>, <<"dependson", "C", "X">>}

\* the values of the "Node size" slider that are tried
MmRValues == {6, 14, 28}

\* the values of the "max depth" setting that are tried
MaxDepthValues == {2, 4}

InitLayout ==
    /\ \E E \in SUBSET LayoutEdges : graph = DeclaredGraph(E, NodeList)
    /\ order = NodeList
    /\ hist = <<>>
    /\ ops = <<>>
    /\ ParseIdle /\ ForceIdle /\ LayoutIdle /\ BuildIdle /\ ReduceIdle /\ RefreshIdle

\* the active note changes: refresh()
OpenNote ==
    /\ \E active \in Docs :
          /\ active # rootName
          /\ RefreshMindmap(active, mmR, applyInheritance, maxDepth)
    /\ UNCHANGED <<mmR, applyInheritance, maxDepth, graphVars, parseVars, forceVars, buildVars, reduceVars, refreshVars>>

\* the "Node size" slider of the mindmap: mmR = v; refresh(true)
SetMmR ==
    /\ rootName # ""
    /\ \E v \in MmRValues :
          /\ v # mmR
          /\ mmR' = v
          /\ RefreshMindmap(rootName, v, applyInheritance, maxDepth)
    /\ UNCHANGED <<applyInheritance, maxDepth, graphVars, parseVars, forceVars, buildVars, reduceVars, refreshVars>>

\* the inheritance check box: applyInheritance = v; refresh(true)
SetApplyInheritance ==
    /\ rootName # ""
    /\ applyInheritance' = ~applyInheritance
    /\ RefreshMindmap(rootName, mmR, ~applyInheritance, maxDepth)
    /\ UNCHANGED <<mmR, maxDepth, graphVars, parseVars, forceVars, buildVars, reduceVars, refreshVars>>

\* the "max depth" setting changes and the view is refreshed
SetMaxDepth ==
    /\ rootName # ""
    /\ \E v \in MaxDepthValues :
          /\ v # maxDepth
          /\ maxDepth' = v
          /\ RefreshMindmap(rootName, mmR, applyInheritance, v)
    /\ UNCHANGED <<mmR, applyInheritance, graphVars, parseVars, forceVars, buildVars, reduceVars, refreshVars>>

NextLayout == OpenNote \/ SetMmR \/ SetApplyInheritance \/ SetMaxDepth

SpecLayout == InitLayout /\ [][NextLayout]_vars

\* ------------------------------------------------------------------------
\* Properties of the mindmap layout
\* ------------------------------------------------------------------------

\* the nodes of a subtree
RECURSIVE SubtreeNodes(_)
SubtreeNodes(n) ==
    {n} \cup UNION {SubtreeNodes(n.children[i]) : i \in 1..Len(n.children)}

\* the left and right end of the slot of a node, in half pixels
SlotLeft(n) == n.x - SlotW(n, mm.mmSlot)

SlotRight(n) == n.x + SlotW(n, mm.mmSlot)

\* the left and right end of the span of a subtree: it covers every slot in it
SpanLeft(n) ==
    LET S == {SlotLeft(d) : d \in SubtreeNodes(n)}
    IN CHOOSE v \in S : \A w \in S : v <= w

SpanRight(n) ==
    LET S == {SlotRight(d) : d \in SubtreeNodes(n)}
    IN CHOOSE v \in S : \A w \in S : v >= w

\* the spans of any two nodes of a row are apart
RowApart(row) ==
    \A i, j \in 1..Len(row) :
        i < j => SpanRight(row[i]) < SpanLeft(row[j])

\* every node laid out
MmNodes ==
    IF mm = <<>> THEN {}
    ELSE SubtreeNodes(mm.root)
         \cup UNION {SubtreeNodes(mm.parents[i]) : i \in 1..Len(mm.parents)}

\* C10: in the laid-out mindmap, for every node and any two distinct
\* children of it, the horizontal spans of the two children's subtrees,
\* each covering the slot of every node of the subtree, do not overlap;
\* the same holds for the row of the root's parents.
C10_SiblingSpansDisjoint ==
    mm # <<>> =>
        /\ \A n \in MmNodes : RowApart(n.children)
        /\ RowApart(mm.parents)

\* C10 witness: a mindmap whose root has two children, one of them with
\* two children of its own, and a parent that has two parents above it
C10_Witness ==
    /\ mm # <<>>
    /\ Len(mm.root.children) >= 2
    /\ \E i \in 1..Len(mm.root.children) : Len(mm.root.children[i].children) >= 2
    /\ \E i \in 1..Len(mm.parents) : Len(mm.parents[i].children) >= 2

\* C13: the tree layout filters dangling references: no node of the
\* descendant tree built by buildTreeNode and no node of the ancestor list
\* built by buildParentNodes carries a name that is no note of the graph.
C13_TreeHasNoDanglingNode ==
    mm # <<>> => \A n \in MmNodes : n.name \in DOMAIN viewGraph

\* the names of the parents shown directly above the root
ParentNames == {mm.parents[i].name : i \in 1..Len(mm.parents)}

MaxReduceEdges == 4

\* Bound: the depth of the call stack the model can hold
MaxStack == 6

\* a call isReachableLeadsto(snapshot, from, to, visited); k = 0 before the
\* tests of lines 183-185, then the position in children.some
Frame(from, visited) == [from |-> from, visited |-> visited, k |-> 0]

Top == stack[Len(stack)]

Pop == SubSeq(stack, 1, Len(stack) - 1)

\* the note whose turn it is in the outer loop
NoteA == order[idxA]

\* snapshot.get(noteA) ?? []
OriginalLeadsto == SnapshotGet(snap, NoteA)

InitReduce ==
    /\ \E E \in SubsetsUpTo(LeadsToEdges, MaxReduceEdges), infer \in BOOLEAN :
          graph = BuildFullGraph(DeclaredGraph(E, NodeList), NodeList, infer, FALSE)
    /\ order = NodeList
    /\ hist = <<>>
    /\ ops = <<>>
    /\ ParseIdle /\ ForceIdle /\ LayoutIdle /\ BuildIdle /\ ReduceIdle /\ RefreshIdle

\* lines 139-142: the snapshot is taken
ReduceBegin ==
    /\ rpc = "idle"
    /\ snap' = LeadstoSnapshot(graph)
    /\ hist' = <<graph>>
    /\ rpc' = "scan"
    /\ UNCHANGED <<graph, order, ops, idxA, idxC, idxB, toRemove, stack, ret,
                   parseVars, forceVars, layoutVars, buildVars, refreshVars>>

\* line 144: the outer loop has gone through every note
ReduceEnd ==
    /\ rpc = "scan"
    /\ idxA > Len(order)
    /\ rpc' = "done"
    /\ UNCHANGED <<graphVars, snap, idxA, idxC, idxB, toRemove, stack, ret,
                   parseVars, forceVars, layoutVars, buildVars, refreshVars>>

\* lines 160-169: the loop over noteC is over, the removals are applied
ReduceNoteDone ==
    /\ rpc = "scan"
    /\ idxA <= Len(order)
    /\ idxC > Len(OriginalLeadsto)
    /\ graph' = ApplyRemoval(graph, NoteA, toRemove)
    /\ idxA' = idxA + 1
    /\ idxC' = 1
    /\ idxB' = 1
    /\ toRemove' = {}
    /\ UNCHANGED <<order, hist, ops, snap, rpc, stack, ret,
                   parseVars, forceVars, layoutVars, buildVars, refreshVars>>

\* line 151: the loop over noteB is over without a break
ReduceNextC ==
    /\ rpc = "scan"
    /\ idxA <= Len(order)
    /\ idxC <= Len(OriginalLeadsto)
    /\ idxB > Len(OriginalLeadsto)
    /\ idxC' = idxC + 1
    /\ idxB' = 1
    /\ UNCHANGED <<graphVars, snap, rpc, idxA, toRemove, stack, ret,
                   parseVars, forceVars, layoutVars, buildVars, refreshVars>>

\* line 152: if (noteB === noteC) continue
ReduceSkipSame ==
    /\ rpc = "scan"
    /\ idxA <= Len(order)
    /\ idxC <= Len(OriginalLeadsto)
    /\ idxB <= Len(OriginalLeadsto)
    /\ OriginalLeadsto[idxB] = OriginalLeadsto[idxC]
    /\ idxB' = idxB + 1
    /\ UNCHANGED <<graphVars, snap, rpc, idxA, idxC, toRemove, stack, ret,
                   parseVars, forceVars, layoutVars, buildVars, refreshVars>>

\* line 153: isReachableLeadsto(snapshot, noteB, noteC, new Set([noteA])) is called
ReduceQuery ==
    /\ rpc = "scan"
    /\ idxA <= Len(order)
    /\ idxC <= Len(OriginalLeadsto)
    /\ idxB <= Len(OriginalLeadsto)
    /\ OriginalLeadsto[idxB] # OriginalLeadsto[idxC]
    /\ stack' = <<Frame(OriginalLeadsto[idxB], {NoteA})>>
    /\ rpc' = "query"
    /\ UNCHANGED <<graphVars, snap, idxA, idxC, idxB, toRemove, ret,
                   parseVars, forceVars, layoutVars, buildVars, refreshVars>>

\* isReachableLeadsto entered without the visited test of line 183
QueryEnter_NoVisitedGuard ==
    /\ rpc = "query"
    /\ ret = "none"
    /\ Top.k = 0
    /\ IF OriginalLeadsto[idxC] \in Range(SnapshotGet(snap, Top.from))
       THEN stack' = Pop /\ ret' = "true"
       ELSE stack' = [stack EXCEPT ![Len(stack)].k = 1] /\ ret' = ret
    /\ UNCHANGED <<graphVars, snap, rpc, idxA, idxC, idxB, toRemove,
                   parseVars, forceVars, layoutVars, buildVars, refreshVars>>

\* lines 183-185: the call on top of the stack is entered
QueryEnter ==
    /\ rpc = "query"
    /\ ret = "none"
    /\ Top.k = 0
    /\ IF Top.from \in Top.visited
       THEN stack' = Pop /\ ret' = "false"
       ELSE IF OriginalLeadsto[idxC] \in Range(SnapshotGet(snap, Top.from))
       THEN stack' = Pop /\ ret' = "true"
       ELSE stack' = [stack EXCEPT ![Len(stack)].k = 1] /\ ret' = ret
    /\ UNCHANGED <<graphVars, snap, rpc, idxA, idxC, idxB, toRemove,
                   parseVars, forceVars, layoutVars, buildVars, refreshVars>>

\* lines 186-187: children.some calls the next child, or is through
QueryDescend ==
    /\ rpc = "query"
    /\ ret = "none"
    /\ Top.k >= 1
    /\ LET children == SnapshotGet(snap, Top.from)
       IN IF Top.k > Len(children)
          THEN stack' = Pop /\ ret' = "false"
          ELSE /\ Len(stack) < MaxStack
               /\ stack' = Append(stack, Frame(children[Top.k], Top.visited \cup {Top.from}))
               /\ ret' = ret
    /\ UNCHANGED <<graphVars, snap, rpc, idxA, idxC, idxB, toRemove,
                   parseVars, forceVars, layoutVars, buildVars, refreshVars>>

\* line 187: a recursive call has returned into children.some
QueryResume ==
    /\ rpc = "query"
    /\ ret # "none"
    /\ stack # <<>>
    /\ IF ret = "true"
       THEN stack' = Pop /\ ret' = ret
       ELSE stack' = [stack EXCEPT ![Len(stack)].k = @ + 1] /\ ret' = "none"
    /\ UNCHANGED <<graphVars, snap, rpc, idxA, idxC, idxB, toRemove,
                   parseVars, forceVars, layoutVars, buildVars, refreshVars>>

\* lines 153-156: the outermost call has returned into the loop over noteB
QueryResult ==
    /\ rpc = "query"
    /\ ret # "none"
    /\ stack = <<>>
    /\ IF ret = "true"
       THEN /\ toRemove' = toRemove \cup {OriginalLeadsto[idxC]}
            /\ idxC' = idxC + 1
            /\ idxB' = 1
       ELSE /\ idxB' = idxB + 1
            /\ UNCHANGED <<toRemove, idxC>>
    /\ ret' = "none"
    /\ rpc' = "scan"
    /\ UNCHANGED <<graphVars, snap, idxA, stack,
                   parseVars, forceVars, layoutVars, buildVars, refreshVars>>

NextReduce ==
    \/ ReduceBegin \/ ReduceEnd \/ ReduceNoteDone \/ ReduceNextC \/ ReduceSkipSame
    \/ ReduceQuery \/ QueryEnter \/ QueryDescend \/ QueryResume \/ QueryResult

\* the function runs to completion once called: JavaScript does not
\* preempt synchronous code
SpecReduce == InitReduce /\ [][NextReduce]_vars /\ WF_vars(NextReduce)

\* the step-by-step run computes what ApplyTransitiveReductionOp computes
ReduceStepsAgree == rpc = "done" => graph = ApplyTransitiveReductionOp(hist[1], order)

\* C16: applyTransitiveReduction, every isReachableLeadsto query it makes
\* included, terminates without error on every graph, also with leadsto
\* cycles, self-loops and dangling targets: the recursion never gets deeper
\* than the number of notes, every state before the end has a next step,
\* and the end is reached.
C16_ReductionTerminates ==
    /\ [](Len(stack) <= Cardinality(DOMAIN graph))
    /\ [](rpc \in {"idle", "scan", "query"} => ENABLED NextReduce)
    /\ <>(rpc = "done")

\* C16 witness: the reduction has ended on a graph with a leadsto cycle, a
\* self-loop and a dangling target
C16_Witness ==
    /\ rpc = "done"
    /\ \E a, b \in Docs :
          /\ a # b
          /\ b \in Range(snap[a]) /\ a \in Range(snap[b])
          /\ \E c \in Docs : c \in Range(snap[c])
    /\ \E a \in Docs : "X" \in Range(snap[a])

\* ------------------------------------------------------------------------
\* Specification of the inference passes
\* ------------------------------------------------------------------------

GraphInit ==
    /\ \E E \in DeclaredEdgeSets, ord \in Orders :
          /\ graph = DeclaredGraph(E, ord)
          /\ order = ord
    /\ hist = <<>>
    /\ ops = <<>>

Init == GraphInit /\ ParseIdle /\ ForceIdle /\ LayoutIdle /\ BuildIdle /\ ReduceIdle /\ RefreshIdle

\* how many times the pass `op` has just been run in succession
RECURSIVE TrailingRuns(_, _)
TrailingRuns(s, op) ==
    IF s = <<>> \/ s[Len(s)] # op THEN 0
    ELSE 1 + TrailingRuns(SubSeq(s, 1, Len(s) - 1), op)

\* buildFullGraph line 89 (and a repeated run of the pass)
InferBidirectionalLinks ==
    /\ "reduce" \notin Range(ops)
    /\ TrailingRuns(ops, "infer") < MaxPasses
    /\ graph' = InferBidirectionalLinksOp(graph, order)
    /\ hist' = Append(hist, graph)
    /\ ops' = Append(ops, "infer")
    /\ UNCHANGED <<order, parseVars, forceVars, layoutVars, buildVars, reduceVars, refreshVars>>

\* buildFullGraph line 90 (and a repeated run of the pass)
ApplyTransitiveReduction ==
    /\ TrailingRuns(ops, "reduce") < MaxPasses
    /\ TrailingRuns(ops, "infer") <= 1
    /\ graph' = ApplyTransitiveReductionOp(graph, order)
    /\ hist' = Append(hist, graph)
    /\ ops' = Append(ops, "reduce")
    /\ UNCHANGED <<order, parseVars, forceVars, layoutVars, buildVars, reduceVars, refreshVars>>

Next == InferBidirectionalLinks \/ ApplyTransitiveReduction

Spec == Init /\ [][Next]_vars

\* ------------------------------------------------------------------------
\* Properties of the inference passes
\* ------------------------------------------------------------------------

LastOp == IF ops = <<>> THEN "none" ELSE ops[Len(ops)]

\* the graph the last pass was run on
PrevGraph == hist[Len(hist)]

\* the graph the current succession of reduction passes started from
ReduceInput == hist[Len(hist) - TrailingRuns(ops, "reduce") + 1]

\* the direct leadsto targets of n (none for a target that is no document)
LeadsToOf(g, n) == IF n \in DOMAIN g THEN Range(g[n].leadsto) ELSE {}

\* nodes reached from the frontier by one or more leadsto hops, no hop
\* leaving a node of `avoid`
RECURSIVE Closure(_, _, _, _)
Closure(g, frontier, seen, avoid) ==
    LET nxt == UNION {LeadsToOf(g, n) : n \in frontier \ avoid} \ seen
    IN IF nxt = {} THEN seen ELSE Closure(g, nxt, seen \cup nxt, avoid)

\* the nodes reachable from a by one or more leadsto hops
Reach(g, a) == Closure(g, {a}, {}, {})

\* the nodes reachable from b by one or more leadsto hops, never leaving a
ReachAvoiding(g, b, a) == Closure(g, {b}, {}, {a})

Acyclic(g) == \A n \in Targets : n \notin Reach(g, n)

Perms == {p \in [1..Cardinality(Docs) -> Docs] : \A i, j \in DOMAIN p : i # j => p[i] # p[j]}

\* C1: transitive reduction never disconnects reachability: every document
\* C reachable from A by leadsto edges before applyTransitiveReduction is
\* still reachable from A after it (cyclic graphs included).
C1_ReachabilityPreserved ==
    LastOp = "reduce" =>
        \A a, c \in Docs : c \in Reach(PrevGraph, a) => c \in Reach(graph, a)

\* C2: after inferBidirectionalLinks, for all documents A and B of the
\* graph, B is in A.leadsto exactly when A is in B.dependson (dangling
\* targets may be present in the lists).
C2_InverseConsistent ==
    LastOp = "infer" =>
        \A a, b \in Docs :
            (b \in Range(graph[a].leadsto)) <=> (a \in Range(graph[b].dependson))

\* C2 witness: inference has added an inverse that no document declared,
\* in a graph that also holds a dangling target
C2_Witness ==
    /\ LastOp = "infer"
    /\ \E a, b \in Docs :
          /\ a \in Range(graph[b].dependson) /\ a \notin Range(PrevGraph[b].dependson)
    /\ \E a, b \in Docs :
          /\ b \in Range(graph[a].leadsto) /\ b \notin Range(PrevGraph[a].leadsto)
    /\ \E a \in Docs : "X" \in Range(graph[a].leadsto) \cup Range(graph[a].dependson)

\* C3: inferBidirectionalLinks is idempotent: a second run in succession
\* leaves every document's leadsto, dependson and informedby lists as the
\* first run left them.
C3_InferIdempotent ==
    TrailingRuns(ops, "infer") >= 2 => graph = PrevGraph

\* C3 witness: the pass ran twice, and the first run did add links
C3_Witness ==
    /\ ops = <<"infer", "infer">>
    /\ hist[2] # hist[1]
    /\ \E a \in Docs : graph[a].informedby # <<>>

\* C4: on a graph whose leadsto relation is acyclic, a second
\* applyTransitiveReduction changes nothing: leadsto and dependson after
\* two passes equal those after one pass.
C4_ReduceFixpointAcyclic ==
    (TrailingRuns(ops, "reduce") >= 2 /\ Acyclic(ReduceInput)) =>
        \A a \in Docs : /\ graph[a].leadsto = PrevGraph[a].leadsto
                        /\ graph[a].dependson = PrevGraph[a].dependson

\* C4 witness: two passes on an acyclic graph, the first one removing two
\* links of one document
C4_Witness ==
    /\ ops = <<"reduce", "reduce">>
    /\ Acyclic(hist[1])
    /\ \E a \in Docs : Len(hist[2][a].leadsto) + 2 <= Len(hist[1][a].leadsto)

\* C5: applyTransitiveReduction removes the leadsto edge A->C exactly when
\* A has another direct target B (B # C) from which C is reachable by one
\* or more leadsto hops of the unreduced graph, the search never passing
\* through A; every other edge is kept, in its place; with A->B, A->C, B->C
\* the edge A->C goes and B->C stays; and the result is the same for every
\* order in which the documents are processed.
C5_ReductionRule ==
    LastOp = "reduce" =>
        /\ \A a \in Docs :
              graph[a].leadsto =
                  FilterIn(PrevGraph[a].leadsto,
                           {c \in Targets :
                               ~ \E b \in LeadsToOf(PrevGraph, a) :
                                     b # c /\ c \in ReachAvoiding(PrevGraph, b, a)})
        /\ ( /\ Range(PrevGraph["A"].leadsto) = {"B", "C"}
             /\ Range(PrevGraph["B"].leadsto) = {"C"}
             /\ PrevGraph["C"].leadsto = <<>> )
           => ( /\ graph["A"].leadsto = <<"B">>
                /\ graph["B"].leadsto = <<"C">> )
        /\ \A p \in Perms : ApplyTransitiveReductionOp(PrevGraph, p) = graph

\* C5 witness: one edge was removed, and another edge A->C was kept
\* although C is reachable from a sibling target B, every such path
\* passing through A
C5_Witness ==
    /\ LastOp = "reduce"
    /\ \E a \in Docs : Len(graph[a].leadsto) < Len(PrevGraph[a].leadsto)
    /\ \E a \in Docs : \E b, c \in LeadsToOf(PrevGraph, a) :
          /\ b # c
          /\ c \in Reach(PrevGraph, b)
          /\ c \in Range(graph[a].leadsto)

\* the documents that list d under the link type `type` in g
SourcesOf(g, type, d) == {a \in DOMAIN g : d \in Range(g[a][type])}

NoDuplicate(list) == Cardinality(Range(list)) = Len(list)

\* C18: after inferBidirectionalLinks, for every document D: D.dependson
\* holds, as a set, what D had before the pass plus every document that
\* had leadsto D; D.leadsto holds what D had before plus every document
\* that had dependson D; no list holds a name twice; and the graph has the
\* documents it had before (a dangling target gets no entry of its own).
C18_InferResult ==
    LastOp = "infer" =>
        /\ DOMAIN graph = DOMAIN PrevGraph
        /\ \A d \in DOMAIN graph :
              /\ Range(graph[d].dependson) =
                     Range(PrevGraph[d].dependson) \cup SourcesOf(PrevGraph, "leadsto", d)
              /\ Range(graph[d].leadsto) =
                     Range(PrevGraph[d].leadsto) \cup SourcesOf(PrevGraph, "dependson", d)
              /\ NoDuplicate(graph[d].dependson)
              /\ NoDuplicate(graph[d].leadsto)

\* C18 witness: the first pass over declared links in which one inverse was
\* already declared by the other document and another inverse was added
C18_Witness ==
    /\ ops = <<"infer">>
    /\ \E a, b \in Docs :
          /\ a # b
          /\ b \in Range(PrevGraph[a].leadsto) /\ a \in Range(PrevGraph[b].dependson)
    /\ \E a, b \in Docs :
          /\ a # b
          /\ b \in Range(PrevGraph[a].leadsto) /\ a \notin Range(PrevGraph[b].dependson)
          /\ a \in Range(graph[b].dependson)

\* the graph when the turn of the k-th note of the entries array comes
GraphAtTurn(g, ord, k) == InferFrom(g, SubSeq(ord, 1, k - 1), 1)

\* [...links.leadsto] (line 108) as the k-th note's turn copies it
LeadstoCopy(g, ord, k) == GraphAtTurn(g, ord, k)[ord[k]].leadsto

\* [...links.dependson] (line 115) as the k-th note's turn copies it, after
\* the note's Rule A loop
DependsonCopy(g, ord, k) ==
    RuleA(GraphAtTurn(g, ord, k), ord[k], LeadstoCopy(g, ord, k), 1)[ord[k]].dependson

\* C19 as stated: every list the pass reads as source data is the list the
\* document had before the pass began: no link the pass added is read
\* later in the same invocation.
C19_ReadsOnlyOriginalLists ==
    LastOp = "infer" =>
        \A k \in DOMAIN order :
            /\ LeadstoCopy(PrevGraph, order, k) = PrevGraph[order[k]].leadsto
            /\ DependsonCopy(PrevGraph, order, k) = PrevGraph[order[k]].dependson

\* a pass that reads only the lists of `snapshot`: the inverse of every link
\* of `targets` is pushed where it is missing
RECURSIVE SnapshotPush(_, _, _, _, _)
SnapshotPush(g, inverse, noteName, targets, i) ==
    IF i > Len(targets) THEN g
    ELSE LET t == targets[i]
             g1 == IF t \in DOMAIN g /\ noteName \notin Range(g[t][inverse])
                   THEN [g EXCEPT ![t][inverse] = Append(@, noteName)]
                   ELSE g
         IN SnapshotPush(g1, inverse, noteName, targets, i + 1)

RECURSIVE SnapshotPassFrom(_, _, _, _)
SnapshotPassFrom(g, snapshot, ord, k) ==
    IF k > Len(ord) THEN g
    ELSE LET g1 == SnapshotPush(g, "dependson", ord[k], snapshot[ord[k]].leadsto, 1)
             g2 == SnapshotPush(g1, "leadsto", ord[k], snapshot[ord[k]].dependson, 1)
         IN SnapshotPassFrom(g2, snapshot, ord, k + 1)

SnapshotPass(g, ord) == SnapshotPassFrom(g, g, ord, 1)

\* C19 amended: the lists are copied when each note's turn comes, so a link
\* added earlier in the pass can be read, but reading it adds nothing: the
\* graph after inferBidirectionalLinks is exactly the graph a pass over a
\* snapshot of the original lists gives (no cascading).
C19_SameAsSnapshotPass ==
    LastOp = "infer" => graph = SnapshotPass(PrevGraph, order)

\* C19 witness: a note's turn copied a leadsto list and another a dependson
\* list that hold a link added earlier in the same pass
C19_Witness ==
    /\ ops = <<"infer">>
    /\ \E k \in DOMAIN order :
          LeadstoCopy(PrevGraph, order, k) # PrevGraph[order[k]].leadsto
    /\ \E k \in DOMAIN order :
          DependsonCopy(PrevGraph, order, k) # PrevGraph[order[k]].dependson

\* C20: in the graph inferBidirectionalLinks followed by
\* applyTransitiveReduction produces, for all documents A and C, C is in
\* A.leadsto exactly when A is in C.dependson; and every link A->C a
\* reduction pass removes from A.leadsto leaves C.dependson without A.
C20_ReductionKeepsInverse ==
    LastOp = "reduce" =>
        /\ "infer" \in Range(ops) =>
              \A a, c \in Docs :
                  (c \in Range(graph[a].leadsto)) <=> (a \in Range(graph[c].dependson))
        /\ \A a, c \in Docs :
              (c \in Range(PrevGraph[a].leadsto) /\ c \notin Range(graph[a].leadsto))
                  => a \notin Range(graph[c].dependson)

\* C20 witness: inference then reduction, the reduction removing a link
\* whose inverse the inference had added, next to a link that was kept
C20_Witness ==
    /\ ops = <<"infer", "reduce">>
    /\ \E a, c \in Docs :
          /\ c \in Range(PrevGraph[a].leadsto) /\ c \notin Range(graph[a].leadsto)
          /\ a \in Range(PrevGraph[c].dependson) /\ a \notin Range(hist[1][c].dependson)
          /\ \E b \in Docs : b \in Range(graph[a].leadsto) /\ a \in Range(graph[b].dependson)

\* ------------------------------------------------------------------------
\* buildFullGraph with the extractions completing in any order (parser.ts
\* lines 80-92): the Map receives its keys in the order of completion, and
\* the passes iterate the Map in that order.
\* ------------------------------------------------------------------------

MaxBuildEdges == 2

\* hist[1] holds what parseNoteLinks returns for each document
InitComplete ==
    /\ graph = <<>>
    /\ order = <<>>
    /\ \E E \in SubsetsUpTo(AllEdges, MaxBuildEdges) \cup SubsetsUpTo(LeadsToEdges, MaxLeadsTo) :
          hist = <<DeclaredGraph(E, NodeList)>>
    /\ ops = <<>>
    /\ ParseIdle /\ ForceIdle /\ LayoutIdle /\ BuildIdle /\ ReduceIdle /\ RefreshIdle

\* the callback of one document finishes: graph.set(file.basename, links)
ExtractionCompletes ==
    /\ ops = <<>>
    /\ \E d \in Docs \ DOMAIN graph :
          /\ graph' = MapSet(graph, d, hist[1][d])
          /\ order' = Append(order, d)
    /\ UNCHANGED <<hist, ops, parseVars, forceVars, layoutVars, buildVars, reduceVars, refreshVars>>

\* Promise.all has resolved: lines 89-90 with the caller's flags
PassesRun ==
    /\ ops = <<>>
    /\ DOMAIN graph = Docs
    /\ \E infer, reduceTransitive \in BOOLEAN :
          /\ graph' = BuildFullGraph(graph, order, infer, reduceTransitive)
          /\ ops' = <<IF infer THEN "infer" ELSE "skip",
                      IF reduceTransitive THEN "reduce" ELSE "skip">>
    /\ UNCHANGED <<order, hist, parseVars, forceVars, layoutVars, buildVars, reduceVars, refreshVars>>

NextComplete == ExtractionCompletes \/ PassesRun

SpecComplete == InitComplete /\ [][NextComplete]_vars

\* the target sets of every document of g
TargetSets(g) == [d \in DOMAIN g |-> [type \in LinkTypes |-> Range(g[d][type])]]

\* C21: while the extractions complete, every entry of the Map is what the
\* extraction of its own document returned, whatever completed before it;
\* and the graph buildFullGraph returns maps every document to the same
\* three target sets as a build in which the extractions completed in the
\* listing order, with and without inference and reduction.
C21_CompletionOrderIrrelevant ==
    /\ ops = <<>> =>
          /\ DOMAIN graph = Range(order)
          /\ \A d \in DOMAIN graph : graph[d] = hist[1][d]
    /\ ops # <<>> =>
          TargetSets(graph) =
              TargetSets(BuildFullGraph(hist[1], NodeList, ops[1] = "infer", ops[2] = "reduce"))

\* C21 witness: the extractions completed in the reverse of the listing
\* order, inference and reduction ran, the reduction removed a link, and
\* the lists differ from those of the listing order in their order only
C21_Witness ==
    /\ ops = <<"infer", "reduce">>
    /\ order = <<"C", "B", "A">>
    /\ \E d \in Docs : Len(graph[d].leadsto) < Len(hist[1][d].leadsto)
    /\ graph # BuildFullGraph(hist[1], NodeList, TRUE, TRUE)

\* the simulation has run its ticks and no frame is requested
Settled == tick = MAX_TICKS /\ frames = <<>> /\ rafId = 0

\* C22: once the renderer is mounted, frames firing, either stop() gets
\* called or the simulation settles: exactly MAX_TICKS ticks have run and
\* no frame is pending; and from a state with MAX_TICKS ticks run and no
\* frame pending no step runs a tick, moves a node or requests a frame.
C22_EventuallySettled ==
    /\ (rstate = "mounted") ~> (stopCalls > 0 \/ Settled)
    /\ [][(tick = MAX_TICKS /\ frames = <<>>)
             => (tick' = tick /\ fnodes' = fnodes /\ frames' = <<>>)]_vars

\* C22 witness: settled without any stop(), every frame callback having run
C22_Witness ==
    /\ Settled
    /\ stopCalls = 0
    /\ rstate = "mounted"
    /\ nextRaf > 300

\* C23: a step that runs physics ticks runs 5 of them when the counter is
\* below 60, 2 when it is from 60 to 199 and 1 from 200 on; and the counter
\* never exceeds MAX_TICKS, although the cap is tested only when a frame
\* starts.
C23_SubStepsAndCap ==
    /\ [][tick' # tick =>
             tick' - tick = (CASE tick < 60 -> 5
                               [] tick >= 60 /\ tick < 200 -> 2
                               [] OTHER -> 1)]_vars
    /\ [](tick >= 0 /\ tick <= MAX_TICKS)

\* C23 witness: the counter is at the cap with the next loop frame still
\* requested, after frames of all three kinds
C23_Witness ==
    /\ tick = MAX_TICKS
    /\ \E i \in DOMAIN frames : frames[i].cb = "loop"
    /\ rafId # 0
    /\ nextRaf > 12 + 70 + 300

\* the two force loops of applyForces (lines 392-421), before the integration
ForcePhase(ns, edges) == SpringsFrom(RepelFrom(ns, 1, 2), edges, 1)

\* the pairs i < j of nodeList
NodePairs == {p \in (1..Len(NodeList)) \X (1..Len(NodeList)) : p[1] < p[2]}

\* what the step from ns to `after` adds to the velocity of every node
VelocityGain(ns, after) ==
    [n \in DOMAIN ns |-> <<after[n].vx - ns[n].vx, after[n].vy - ns[n].vy>>]

AddGain(g1, g2) == [n \in DOMAIN g1 |-> <<g1[n][1] + g2[n][1], g1[n][2] + g2[n][2]>>]

RECURSIVE SumGains(_, _, _)
SumGains(S, gainOf(_), acc) ==
    IF S = {} THEN acc
    ELSE LET e == CHOOSE x \in S : TRUE
         IN CHOOSE r \in {SumGains(S \ {e}, gainOf, a1) : a1 \in {AddGain(acc, gainOf(e))}} : TRUE

\* what the forces of all pairs and of all edges, each computed on the state
\* ns alone, add to the velocities
ForcesFromStart(ns, edges) ==
    LET pairGain(p) == VelocityGain(ns, Repel(ns, NodeList[p[1]], NodeList[p[2]]))
        edgeGain(k) == VelocityGain(ns, Spring(ns, edges[k]))
        zero == [n \in DOMAIN ns |-> <<0, 0>>]
    IN SumGains(DOMAIN edges, edgeGain, SumGains(NodePairs, pairGain, zero))

\* C24: in every state of a mounted renderer, the force loops of the next
\* tick leave every position as it is and add to every velocity the sum of
\* the pair and edge forces computed on the positions of that state; a
\* one-tick frame moves each node by the velocity the tick ends with; and
\* a step that runs no tick leaves the nodes of a mounted renderer alone.
C24_ForcesFromTickStart ==
    /\ [](rstate = "mounted" =>
            LET after == ForcePhase(fnodes, fedges)
            IN /\ \A n \in DOMAIN fnodes : after[n].x = fnodes[n].x /\ after[n].y = fnodes[n].y
               /\ VelocityGain(fnodes, after) = ForcesFromStart(fnodes, fedges))
    /\ [][tick' = tick + 1 =>
             \A n \in DOMAIN fnodes :
                 /\ fnodes'[n].x = fnodes[n].x + fnodes'[n].vx
                 /\ fnodes'[n].y = fnodes[n].y + fnodes'[n].vy]_vars
    /\ [][(rstate = "mounted" /\ tick' = tick) => fnodes' = fnodes]_vars

\* C24 witness: a tick has run, the nodes are moving, and a node gets force
\* from a pair and from an edge at once
C24_Witness ==
    /\ rstate = "mounted"
    /\ tick >= 5
    /\ Len(fedges) >= 2
    /\ \E n \in DOMAIN fnodes :
          /\ fnodes[n].vx # 0
          /\ ForcesFromStart(fnodes, fedges)[n][1] # 0
          /\ Spring(fnodes, fedges[1])[n].vx # fnodes[n].vx

\* the subtree of n, a node at depth `depth` below the ancestors named, is
\* as buildTreeNode bounds it
RECURSIVE DescendantsBounded(_, _, _)
DescendantsBounded(n, depth, ancestors) ==
    /\ depth <= maxDepth
    /\ (depth = maxDepth \/ n.name \in ancestors) => n.children = <<>>
    /\ \A i \in 1..Len(n.children) :
          /\ n.name \in DOMAIN viewGraph
          /\ n.children[i].linkType \in {"leadsto", "informedby"}
          /\ n.children[i].name \in Range(viewGraph[n.name][n.children[i].linkType])
          /\ DescendantsBounded(n.children[i], depth + 1, ancestors \cup {n.name})

\* C25: every refresh gets its tree from buildTreeNode (on every graph,
\* cyclic ones included), and in that tree every node is at depth at most
\* maxDepth,
\* a node at depth maxDepth has no children, a node whose name occurs among
\* its ancestors has no children, and every child is named in the leadsto
\* or the informedby list of its parent, under that link type.
C25_DescendantTreeBounded ==
    /\ rootName # "" => (mm # <<>> /\ mm.root.name = rootName)
    /\ mm # <<>> => DescendantsBounded(mm.root, 0, {})

\* C25 witness: below the root a note leads back to the root, above the
\* depth limit: the root appears again, with links of its own and no children
C25_Witness ==
    /\ mm # <<>>
    /\ maxDepth = 4
    /\ viewGraph[rootName].leadsto # <<>>
    /\ \E i \in 1..Len(mm.root.children) :
          \E j \in 1..Len(mm.root.children[i].children) :
              /\ mm.root.children[i].children[j].name = rootName
              /\ mm.root.children[i].children[j].children = <<>>

\* the ancestor entry p, at `level` levels above the root and directly above
\* the node `below`, with `chain` the names from the root up to `below`
RECURSIVE AncestorsBounded(_, _, _, _)
AncestorsBounded(p, below, level, chain) ==
    /\ level <= ParentDepth
    /\ p.name \notin chain
    /\ \/ /\ p.linkType = "parent"
          /\ below \in DOMAIN viewGraph
          /\ p.name \in Range(viewGraph[below].dependson)
       \/ /\ p.linkType = "informedby"
          /\ p.name \in DOMAIN viewGraph
          /\ below \in Range(viewGraph[p.name].informedby)
    /\ \A i \in 1..Len(p.children) :
          AncestorsBounded(p.children[i], p.name, level + 1, chain \cup {p.name})

\* C26: in the ancestor list buildParentNodes returns, the entries are
\* nested at most parentDepth levels deep; each entry is a dependson target
\* of the node below it or a document whose informedby list names the
\* node below it; no name occurs twice along a chain, and the root occurs
\* in none.
C26_AncestorListBounded ==
    mm # <<>> =>
        \A i \in 1..Len(mm.parents) : AncestorsBounded(mm.parents[i], rootName, 1, {rootName})

\* C26 witness: a parent of the root has the root among its own parents,
\* and is shown with another parent and without the root; a parent that
\* came from informedby and a parent that is no document are shown
C26_Witness ==
    /\ mm # <<>>
    /\ \E i \in 1..Len(mm.parents) :
          LET p == mm.parents[i]
          IN /\ p.name \in DOMAIN viewGraph
             /\ rootName \in Range(viewGraph[p.name].dependson)
             /\ p.children # <<>>
    /\ \E i \in 1..Len(mm.parents) : mm.parents[i].linkType = "informedby"
    /\ \E n \in MmNodes : n.linkType = "parent" /\ n.name \notin DOMAIN viewGraph

\* the names and link types of a row of nodes
RowOf(children) == [i \in 1..Len(children) |-> <<children[i].name, children[i].linkType>>]

TypedRow(list, type) == [i \in 1..Len(list) |-> <<list[i], type>>]

\* a node below the depth limit that is a document and is not among its own
\* ancestors has all its leadsto and informedby targets as children,
\* whatever its siblings hold; and so on down
RECURSIVE ExpandedOnOwnPath(_, _, _)
ExpandedOnOwnPath(n, depth, ancestors) ==
    /\ (depth < maxDepth /\ n.name \notin ancestors /\ n.name \in DOMAIN viewGraph)
          => RowOf(n.children) = TypedRow(viewGraph[n.name].leadsto, "leadsto")
                                 \o TypedRow(viewGraph[n.name].informedby, "informedby")
    /\ \A i \in 1..Len(n.children) :
          ExpandedOnOwnPath(n.children[i], depth + 1, ancestors \cup {n.name})

\* an ancestor entry below the parent depth has as parents all dependson
\* targets and informedby sources that are not on its own chain
RECURSIVE AncestorsOnOwnPath(_, _, _)
AncestorsOnOwnPath(p, level, chain) ==
    /\ level < ParentDepth =>
          {p.children[i].name : i \in 1..Len(p.children)} =
              ((IF p.name \in DOMAIN viewGraph THEN Range(viewGraph[p.name].dependson) ELSE {})
               \cup SourcesOf(viewGraph, "informedby", p.name))
              \ (chain \cup {p.name})
    /\ \A i \in 1..Len(p.children) :
          AncestorsOnOwnPath(p.children[i], level + 1, chain \cup {p.name})

\* C27: the visited set is per call path: what is built under a node is
\* fixed by its name, its depth and the names on its path from the root:
\* every node that its own path lets expand has all its targets as
\* children, whatever the sibling branches already hold, so a document
\* reached through two sibling branches is expanded under both.
C27_VisitedPerPath ==
    mm # <<>> =>
        /\ ExpandedOnOwnPath(mm.root, 0, {})
        /\ \A i \in 1..Len(mm.parents) : AncestorsOnOwnPath(mm.parents[i], 1, {rootName})

\* C27 witness: a document is a child of the root and a grandchild through
\* an earlier sibling, and has children in both places
C27_Witness ==
    /\ mm # <<>>
    /\ \E i, j \in 1..Len(mm.root.children) :
          /\ i < j
          /\ mm.root.children[j].children # <<>>
          /\ \E k \in 1..Len(mm.root.children[i].children) :
                /\ mm.root.children[i].children[k].name = mm.root.children[j].name
                /\ mm.root.children[i].children[k].children # <<>>

\* a string of white space only
Blank(str) == str # <<>> /\ \A i \in 1..Len(str) : str[i] = " "

\* the set the statement gives for a frontmatter value: nothing for an
\* absent value (no key, null, the empty string), the string form of a
\* scalar, the string forms of the elements of a list that are neither
\* empty nor blank
NormalizedTargets(val) ==
    CASE val.t \in {"undef", "null"} -> {}
      [] val.t = "list" ->
            {str \in {StringOf(val.xs[i]) : i \in 1..Len(val.xs)} : str # <<>> /\ ~Blank(str)}
      [] OTHER -> {StringOf(val)} \ {<<>>}

\* C28: the three Sets parseNoteLinks builds from the frontmatter, before
\* the body is read, hold for each key: nothing when the value is absent,
\* the string form of a scalar, and for a list the string form of each
\* element, empty and whitespace-only entries dropped.
C28_FrontmatterNormalized ==
    \A f \in Files :
        pstate[f] = "reading" =>
            \A type \in LinkTypes :
                Range(pending[f][type]) = NormalizedTargets(fm[f][type])

\* ------------------------------------------------------------------------
\* The users of the shared INLINE_TAG_REGEX, one exec at a time: the
\* parseNoteLinks calls buildFullGraph starts (parser.ts 45-63, 83-88) and
\* the markdown post-processor (main.ts, registerMarkdownPostProcessor).
\* ------------------------------------------------------------------------

ScanFiles == {"n1", "n2"}

PostProcessor == "pp"

Callers == ScanFiles \cup {PostProcessor}

\* the texts of the notes and of the rendered text node
ScanTexts ==
    {<<>>,
     <<"leadsto", "@", "a", " ", "<", "@", "b">>,
     <<"---", "\n", "leadsto", "@", "b", "\n", "---", "\n", "!", "@", "a", " ", ">", "@", "b">>}

\* the text a caller scans: the note without its frontmatter block, or the
\* text node as it is
ScannedText(c) == IF c \in ScanFiles THEN StripFrontmatter(raw[c]) ELSE raw[c]

InitScan ==
    /\ fm = [c \in Callers |-> NoFrontmatter]
    /\ raw \in [Callers -> ScanTexts]
    /\ pstate = [c \in Callers |-> "idle"]
    /\ pending = [c \in Callers |-> [sets |-> NoSets, hits |-> <<>>]]
    /\ links = [c \in Callers |-> NoteLinks(<<>>, <<>>, <<>>)]
    /\ lastIndex = 0
    /\ GraphIdle /\ ForceIdle /\ LayoutIdle /\ BuildIdle /\ ReduceIdle /\ RefreshIdle

\* a scheduler that starts a callback while another one is inside its loop
ThreadFree_Preemptive == TRUE

\* JavaScript runs a callback to its end or to its next await: the scan
\* loops hold no await, so no callback starts while a caller is inside one
ThreadFree == \A c \in Callers : pstate[c] \notin {"tested", "scanning"}

\* buildFullGraph: mdFiles.map starts parseNoteLinks for every file, each
\* running to its await of cachedRead
ScanParseStart ==
    /\ ThreadFree
    /\ \A f \in ScanFiles : pstate[f] = "idle"
    /\ pstate' = [c \in Callers |-> IF c \in ScanFiles THEN "reading" ELSE pstate[c]]
    /\ UNCHANGED <<fm, raw, pending, links, lastIndex,
                   graphVars, forceVars, layoutVars, buildVars, reduceVars, refreshVars>>

\* the read of one note resolves: lines 46-52, up to the reset of the cursor
ScanReadResolves ==
    /\ ThreadFree
    /\ \E f \in ScanFiles :
          /\ pstate[f] = "reading"
          /\ pstate' = [pstate EXCEPT ![f] = "scanning"]
    /\ lastIndex' = 0
    /\ UNCHANGED <<fm, raw, pending, links,
                   graphVars, forceVars, layoutVars, buildVars, reduceVars, refreshVars>>

\* one INLINE_TAG_REGEX.exec of the while loop of a caller (parser.ts 53-60,
\* post-processor loop): a match moves the cursor behind it, null resets
\* the cursor and ends the loop
ScanExec ==
    \E c \in Callers :
        /\ pstate[c] = "scanning"
        /\ LET m == Exec(ScannedText(c), lastIndex)
               resolved == ResolveTagMatch(m)
           IN IF ~m.ok
              THEN /\ lastIndex' = 0
                   /\ pstate' = [pstate EXCEPT ![c] = "done"]
                   /\ links' = [links EXCEPT ![c] = LinksOfSets(pending[c].sets)]
                   /\ UNCHANGED pending
              ELSE /\ lastIndex' = m.end
                   /\ pending' =
                         [pending EXCEPT
                            ![c].hits = Append(@, m.end),
                            ![c].sets = IF resolved.ok
                                        THEN [@ EXCEPT ![resolved.type] =
                                                          SetAdd(@, resolved.target)]
                                        ELSE @]
                   /\ UNCHANGED <<pstate, links>>
        /\ UNCHANGED <<fm, raw, graphVars, forceVars, layoutVars, buildVars, reduceVars, refreshVars>>

\* the post-processor's first loop on a text node: the cursor is reset and
\* INLINE_TAG_REGEX.test(txt) leaves it behind the first match
PostProcessorTest ==
    /\ ThreadFree
    /\ pstate[PostProcessor] = "idle"
    /\ LET m == Exec(raw[PostProcessor], 0)
       IN IF m.ok
          THEN /\ lastIndex' = m.end
               /\ pstate' = [pstate EXCEPT ![PostProcessor] = "tested"]
          ELSE /\ lastIndex' = 0
               /\ pstate' = [pstate EXCEPT ![PostProcessor] = "done"]
    /\ UNCHANGED <<fm, raw, pending, links,
                   graphVars, forceVars, layoutVars, buildVars, reduceVars, refreshVars>>

\* the post-processor's second loop reaches the text node: cursor reset
PostProcessorBegin ==
    /\ pstate[PostProcessor] = "tested"
    /\ pstate' = [pstate EXCEPT ![PostProcessor] = "scanning"]
    /\ lastIndex' = 0
    /\ UNCHANGED <<fm, raw, pending, links,
                   graphVars, forceVars, layoutVars, buildVars, reduceVars, refreshVars>>

NextScan ==
    ScanParseStart \/ ScanReadResolves \/ ScanExec \/ PostProcessorTest \/ PostProcessorBegin

SpecScan == InitScan /\ [][NextScan]_vars

\* where the matches of a text end, found one after the other from cursor li
RECURSIVE HitsFrom(_, _)
HitsFrom(body, li) ==
    LET m == Exec(body, li)
    IN IF ~m.ok THEN <<>> ELSE <<m.end>> \o HitsFrom(body, m.end)

\* C29: whatever the order in which the reads resolve and the
\* post-processor runs, every scan starts with the cursor at 0, the cursor
\* is 0 whenever no caller is inside a scan, and a caller that has
\* finished found each tag of its own text once, in order, and no other.
C29_NoRaceOnCursor ==
    /\ ThreadFree => lastIndex = 0
    /\ \A c \in Callers :
          /\ (pstate[c] = "scanning" /\ pending[c].hits = <<>>) => lastIndex = 0
          /\ pstate[c] = "done" =>
                /\ pending[c].hits = HitsFrom(ScannedText(c), 0)
                /\ pending[c].sets = ScanLoop(ScannedText(c), 0, NoSets)

\* C29 witness: the two notes and the text node were scanned to the end,
\* each text holding two tags or more, the notes differing in their text
\* and in the links found, the text node's tags lying elsewhere
C29_Witness ==
    /\ \A c \in Callers : pstate[c] = "done" /\ Len(pending[c].hits) >= 2
    /\ raw["n1"] # raw["n2"]
    /\ pending["n1"].sets # pending["n2"].sets
    /\ pending[PostProcessor].hits # pending["n1"].hits

\* ------------------------------------------------------------------------
\* ArchiTreeView.refresh, one step per run between two awaits: the part up
\* to `await buildFullGraph` (lines 265-284, 303) and the part after it
\* (lines 285-300, 305-334). The callers are the mode buttons (109-127),
\* the settings sliders (170-198) and the plugin's vault events, which go
\* through refreshOpenTreeViews.
\* ------------------------------------------------------------------------

MaxRefreshCalls == 3

Modes == {"folio", "mindmap", "network"}

\* app.workspace.getActiveFile()?.basename; "" stands for no active file
ActiveNames == {"", "A"}

\* the view after onOpen created treeContainerEl, in the mode the settings
\* saved (constructor)
InitRefresh ==
    /\ currentMode \in Modes
    /\ forceRenderer = 0
    /\ container = <<>>
    /\ renderers = <<>>
    /\ calls = <<>>
    /\ refreshCalls = 0
    /\ GraphIdle /\ ParseIdle /\ ForceIdle /\ LayoutIdle /\ BuildIdle /\ ReduceIdle

\* ForceGraphRenderer.stop() on renderer id; nothing for null (`?.`)
StopRenderer(rs, id) ==
    IF id = 0 THEN rs ELSE [rs EXCEPT ![id] = [raf |-> "none", stopped |-> TRUE]]

\* refresh(preservePanZoom) up to its await, in mode `mode`: the renderer
\* the view references is stopped and forgotten, the container emptied,
\* the branch chosen by currentMode and buildFullGraph awaited
RefreshCall(mode, preservePanZoom) ==
    /\ refreshCalls < MaxRefreshCalls
    /\ currentMode' = mode
    /\ renderers' = StopRenderer(renderers, forceRenderer)
    /\ forceRenderer' = 0
    /\ container' = <<>>
    /\ calls' = Append(calls, [branch |-> IF mode = "network" THEN "network" ELSE "tree",
                               preserve |-> preservePanZoom])
    /\ refreshCalls' = refreshCalls + 1
    /\ UNCHANGED <<graphVars, parseVars, forceVars, layoutVars, buildVars, reduceVars>>

\* folioBtn, mindmapBtn, networkBtn click listeners
ClickModeButton == \E mode \in Modes : RefreshCall(mode, FALSE)

\* a slider or toggle of the settings panel: this.refresh(true)
SettingsChange == RefreshCall(currentMode, TRUE)

\* metadataCache 'changed' or workspace 'active-leaf-change':
\* refreshOpenTreeViews calls view.refresh()
VaultEvent == RefreshCall(currentMode, FALSE)

\* the buildFullGraph of one waiting call resolves and the call runs to
\* its end: the network branch constructs and mounts a renderer, the other
\* branch renders the placeholder, the mindmap or the folio
RefreshResume ==
    \E i \in 1..Len(calls), active \in ActiveNames :
        /\ calls' = SubSeq(calls, 1, i - 1) \o SubSeq(calls, i + 1, Len(calls))
        /\ IF calls[i].branch = "network"
           THEN /\ renderers' = Append(renderers, [raf |-> "pending", stopped |-> FALSE])
                /\ forceRenderer' = Len(renderers) + 1
                /\ container' = Append(container, [kind |-> "network",
                                                   renderer |-> Len(renderers) + 1])
                /\ UNCHANGED rootName
           ELSE /\ rootName' = active
                /\ container' =
                      Append(container,
                             [kind |-> IF active = "" THEN "empty"
                                       ELSE IF currentMode = "mindmap" THEN "mindmap"
                                       ELSE "folio",
                              renderer |-> 0])
                /\ UNCHANGED <<renderers, forceRenderer>>
        /\ UNCHANGED <<currentMode, refreshCalls, mmR, applyInheritance, maxDepth,
                       viewGraph, mm, graphVars, parseVars, forceVars, buildVars,
                       reduceVars>>

\* startRAF's loop of a mounted renderer reaches MAX_TICKS and requests no
\* further frame
RendererSettles ==
    /\ \E id \in 1..Len(renderers) :
          /\ renderers[id].raf = "pending"
          /\ renderers' = [renderers EXCEPT ![id].raf = "none"]
    /\ UNCHANGED <<currentMode, forceRenderer, container, calls, refreshCalls,
                   graphVars, parseVars, forceVars, layoutVars, buildVars, reduceVars>>

NextRefresh ==
    ClickModeButton \/ SettingsChange \/ VaultEvent \/ RefreshResume \/ RendererSettles

SpecRefresh == InitRefresh /\ [][NextRefresh]_vars

\* C30: once every refresh call that was started has completed, the
\* container holds exactly one rendered view, a renderer with a pending
\* animation frame is the one the view references and the one whose
\* wrapper the container holds, and every other renderer was stopped.
C30_OneViewAfterRefreshes ==
    (refreshCalls > 0 /\ calls = <<>>) =>
        /\ Len(container) = 1
        /\ \A id \in 1..Len(renderers) :
              IF id = forceRenderer
              THEN container[1].renderer = id
              ELSE renderers[id].raf = "none" /\ renderers[id].stopped

====
